---- MODULE Spec2Model ----
(***************************************************************************)
(* A model of the OCR scanning client: the iPhone serial/IMEI scanner page *)
(* (IPhoneSerialPage: blur gate, coarse pass, fine pass, candidate voting, *)
(* detection loop under React's closures and effects), the card scanning   *)
(* loop of CameraOcrPage, the worker and the OCR runs of OcrDebugPage, and *)
(* the pages' pure functions (extractors, IMEI checksum, crop planner).    *)
(*                                                                         *)
(* Strings are sequences of one-character strings, so that the regular     *)
(* expressions of the source are computed character by character.          *)
(* Indices into a text are 0-based, as in JavaScript.                      *)
(***************************************************************************)
EXTENDS Integers, Sequences, FiniteSets, Bags, TLC

\* ------------------------------------------------------------------ bounds

\* Detection cycles (invocations that take the processing guard) per behaviour.
MaxCycles == 2
\* Controls (Start, Stop, Reset, Test Image) operated per behaviour.
MaxClicks == 3
\* Detection cycles per behaviour of the scanner left running.
MaxScanCycles == 7
\* Cycles, and resets, per behaviour of the DetectionState updates.
MaxAggCycles == 5
MaxAggResets == 1
\* Cycles per behaviour of the screen classification.
MaxClassifyCycles == 3
\* Cycles and clicks per behaviour of the scan with a reset.
MaxLiveCycles == 7
MaxLiveClicks == 2
\* Cycles and clicks per behaviour of the page with sources that fail.
MaxSourceCycles == 2
MaxSourceClicks == 3
\* Longest history given to calculateConfidence.
MaxConfidenceLen == 20
\* OEM / language changes and OCR runs per behaviour of OcrDebugPage.
MaxEngineChanges == 2
MaxDebugRuns == 2
\* Cycles per behaviour of the page being started.
MaxStartCycles == 3
\* Scheduler callbacks (timers and animation frames) pending at once.
MaxPending == 2
\* Cycles of the card-scanning loop per behaviour.
MaxCardCycles == 2
\* OEM / language changes and OCR runs per behaviour of OcrDebugPage with failures.
MaxRunEngineChanges == 2
MaxRunRuns == 2
\* Pieces a text given to an extractor is made of.
MaxTokens == 3
\* Digits replaced, one after the other, in an IMEI given to isValidImei.
MaxFlips == 2
\* Label boxes have their corners on a grid of GridSteps steps per dimension.
GridSteps == 4
\* Cycles, and resets, per behaviour of the scan of frames that repeat a value.
MaxRepeatCycles == 4
MaxRepeatResets == 1

\* ------------------------------------------------------- program constants

BLUR_THRESHOLD == 100
\* getMostFrequent(candidates, 3)
MIN_COUNT == 3
\* [...].slice(-20)
HISTORY_CAP == 20
\* setTimeout delays of runDetectionLoop
DEFER_DELAY == 100
BLUR_RETRY_DELAY == 50
SCAN_RETRY_DELAY == 200
EXTRACT_DELAY == 500
DEFAULT_DELAY == 300

\* ------------------------------------------------------------- characters

Digits == {"0", "1", "2", "3", "4", "5", "6", "7", "8", "9"}
UpperSeq == <<"A", "B", "C", "D", "E", "F", "G", "H", "I", "J", "K", "L", "M",
              "N", "O", "P", "Q", "R", "S", "T", "U", "V", "W", "X", "Y", "Z">>
LowerSeq == <<"a", "b", "c", "d", "e", "f", "g", "h", "i", "j", "k", "l", "m",
              "n", "o", "p", "q", "r", "s", "t", "u", "v", "w", "x", "y", "z">>
Upper == {UpperSeq[i] : i \in 1..26}
\* \s of the regular expressions
WhiteSpace == {" ", "\n", "\t"}
\* [A-Z0-9]
SerialChars == Upper \cup Digits

Min(S) == CHOOSE x \in S : \A y \in S : x <= y
Max(S) == CHOOSE x \in S : \A y \in S : x >= y

\* String.prototype.toLowerCase, one character
lowerChar(c) ==
    IF c \in Upper THEN LowerSeq[CHOOSE i \in 1..26 : UpperSeq[i] = c] ELSE c
toLowerCase(text) == [i \in 1..Len(text) |-> lowerChar(text[i])]

\* String.prototype.indexOf: the first 0-based index of word in text, or -1
indexOf(text, word) ==
    LET hits == {i \in 0..(Len(text) - Len(word)) :
                    SubSeq(text, i + 1, i + Len(word)) = word}
    IN IF hits = {} THEN -1 ELSE Min(hits)

\* /word/i.test(text)
hasLabel(text, word) == indexOf(toLowerCase(text), word) >= 0

\* ---------------------------------------------------- regular expressions

RECURSIVE RunLength(_, _, _, _)
\* How many consecutive characters of class cls start at index i, at most cap.
RunLength(text, i, cls, cap) ==
    IF cap = 0 \/ i >= Len(text) THEN 0
    ELSE IF text[i + 1] \notin cls THEN 0
    ELSE 1 + RunLength(text, i + 1, cls, cap - 1)

\* \d{n} at index i: the index after it, or -1
DigitsAt(text, i, n) ==
    IF i >= 0 /\ RunLength(text, i, Digits, n) = n THEN i + n ELSE -1
\* \s? at index i (greedy; \s and \d are disjoint, so backtracking never helps)
OptSpaceAt(text, i) ==
    IF i >= 0 /\ i < Len(text) THEN (IF text[i + 1] \in WhiteSpace THEN i + 1 ELSE i)
    ELSE i

\* SERIAL_PATTERN = /[A-Z0-9]{10,12}/g anchored at i: the end index, or -1
SerialMatchAt(text, i) ==
    LET n == RunLength(text, i, SerialChars, 12)
    IN IF n >= 10 THEN i + n ELSE -1

\* IMEI_PATTERN = /\d{2}\s?\d{6}\s?\d{6}\s?\d|\d{15}/g anchored at i
ImeiMatchAt(text, i) ==
    LET a == DigitsAt(text, i, 2)
        b == DigitsAt(text, OptSpaceAt(text, a), 6)
        c == DigitsAt(text, OptSpaceAt(text, b), 6)
        d == DigitsAt(text, OptSpaceAt(text, c), 1)
    IN IF d >= 0 THEN d ELSE DigitsAt(text, i, 15)

PatternMatchAt(pat, text, i) ==
    IF pat = "SERIAL_PATTERN" THEN SerialMatchAt(text, i) ELSE ImeiMatchAt(text, i)

\* RegExp exec from index from: <<start, end>> of the leftmost match, or <<-1, -1>>
RegexExec(pat, text, from) ==
    LET hits == {i \in from..(Len(text) - 1) : PatternMatchAt(pat, text, i) >= 0}
    IN IF hits = {} THEN <<-1, -1>>
       ELSE <<Min(hits), PatternMatchAt(pat, text, Min(hits))>>

\* RegExp.prototype.test of a global regex: searches from lastIndex and leaves
\* lastIndex at the end of the match, or at 0 when nothing matches.
RegexTest(pat, text, lastIndex) ==
    LET m == IF lastIndex > Len(text) THEN <<-1, -1>> ELSE RegexExec(pat, text, lastIndex)
    IN [result |-> m[1] >= 0, lastIndex |-> IF m[1] >= 0 THEN m[2] ELSE 0]

RECURSIVE MatchFrom(_, _, _)
MatchFrom(pat, text, from) ==
    LET m == RegexExec(pat, text, from)
    IN IF m[1] < 0 THEN <<>>
       ELSE <<SubSeq(text, m[1] + 1, m[2])>> \o MatchFrom(pat, text, m[2])
\* String.prototype.match with a global regex: every match, from index 0
\* (lastIndex is reset to 0 before and after).
matchAll(pat, text) == MatchFrom(pat, text, 0)

RECURSIVE Dedupe(_)
\* [...new Set(list)]: first occurrences, in order
Dedupe(list) ==
    IF list = <<>> THEN <<>>
    ELSE LET rest == Dedupe(SubSeq(list, 1, Len(list) - 1))
             last == list[Len(list)]
         IN IF \E i \in 1..Len(rest) : rest[i] = last THEN rest ELSE Append(rest, last)

\* ----------------------------------------------------- pattern extractors

\* normalizeImei returning its argument as it is.
normalizeImei_identity(imei) == imei

normalizeImei(imei) == SelectSeq(imei, LAMBDA c : c \notin WhiteSpace)

AllDigits(s) == \A i \in 1..Len(s) : s[i] \in Digits

\* The serial extractor without its [...new Set(...)].
extractSerialNumbers_withDuplicates(text) ==
    SelectSeq(matchAll("SERIAL_PATTERN", text), LAMBDA m : ~(Len(m) = 15 /\ AllDigits(m)))

extractSerialNumbers(text) ==
    Dedupe(SelectSeq(matchAll("SERIAL_PATTERN", text),
                     LAMBDA m : ~(Len(m) = 15 /\ AllDigits(m))))

\* parseInt(c, 10) of one digit character
DigitSeq == <<"0", "1", "2", "3", "4", "5", "6", "7", "8", "9">>
parseInt(c) == (CHOOSE n \in 1..10 : DigitSeq[n] = c) - 1

RECURSIVE LuhnSum_doubleOnly(_, _)
\* The checksum loop without its "if (digit > 9) digit -= 9".
LuhnSum_doubleOnly(digits, i) ==
    IF i >= 14 THEN 0
    ELSE (IF i % 2 = 1 THEN parseInt(digits[i + 1]) * 2 ELSE parseInt(digits[i + 1]))
         + LuhnSum_doubleOnly(digits, i + 1)

RECURSIVE LuhnSum(_, _)
\* for (let i = 0; i < 14; i++) {...}: the sum from index i on
LuhnSum(digits, i) ==
    IF i >= 14 THEN 0
    ELSE LET digit == parseInt(digits[i + 1])
             doubled == IF digit * 2 > 9 THEN digit * 2 - 9 ELSE digit * 2
         IN (IF i % 2 = 1 THEN doubled ELSE digit) + LuhnSum(digits, i + 1)

isValidImei(imei) ==
    LET digits == normalizeImei(imei)
    IN IF Len(digits) # 15 \/ ~(Len(digits) > 0 /\ AllDigits(digits)) THEN FALSE
       ELSE (10 - (LuhnSum(digits, 0) % 10)) % 10 = parseInt(digits[15])

\* formatImei: the digits regrouped 2-6-6-1, or the digits alone when not 15
formatImei(imei) ==
    LET digits == normalizeImei(imei)
    IN IF Len(digits) # 15 THEN digits
       ELSE SubSeq(digits, 1, 2) \o <<" ">> \o SubSeq(digits, 3, 8) \o <<" ">> \o
            SubSeq(digits, 9, 14) \o <<" ">> \o SubSeq(digits, 15, 15)

extractImeis(text) ==
    LET normalized == [i \in 1..Len(matchAll("IMEI_PATTERN", text)) |->
                          normalizeImei(matchAll("IMEI_PATTERN", text)[i])]
    IN Dedupe(SelectSeq(normalized, LAMBDA n : Len(n) = 15))

\* ----------------------------------------------------- candidate aggregator

\* null (no confirmed value); every extracted value is a non-empty string
Null == <<>>
\* no evidence snapshot; snapshots are identified by the number of the cycle
\* whose full-resolution frame they hold
NoImage == 0

Count(arr, v) == Cardinality({i \in 1..Len(arr) : arr[i] = v})

RECURSIVE MostFrequentLoop_lastWins(_, _, _, _, _)
\* The loop with count >= maxCount: among equal counts the last key wins.
MostFrequentLoop_lastWins(keys, arr, minCount, maxCount, mostFrequent) ==
    IF keys = <<>> THEN mostFrequent
    ELSE LET value == Head(keys)
             count == Count(arr, value)
         IN IF count >= maxCount /\ count >= minCount
            THEN MostFrequentLoop_lastWins(Tail(keys), arr, minCount, count, value)
            ELSE MostFrequentLoop_lastWins(Tail(keys), arr, minCount, maxCount,
                                           mostFrequent)

RECURSIVE MostFrequentLoop(_, _, _, _, _)
\* counts.forEach((count, value) => ...) over the Map's keys in insertion order
MostFrequentLoop(keys, arr, minCount, maxCount, mostFrequent) ==
    IF keys = <<>> THEN mostFrequent
    ELSE LET value == Head(keys)
             count == Count(arr, value)
         IN IF count > maxCount /\ count >= minCount
            THEN MostFrequentLoop(Tail(keys), arr, minCount, count, value)
            ELSE MostFrequentLoop(Tail(keys), arr, minCount, maxCount, mostFrequent)

\* getMostFrequent without its count >= minCount test.
getMostFrequent_anyCount(arr, minCount) ==
    IF Len(arr) = 0 THEN Null
    ELSE MostFrequentLoop(Dedupe(arr), arr, 1, 0, Null)

getMostFrequent(arr, minCount) ==
    IF Len(arr) = 0 THEN Null
    ELSE MostFrequentLoop(Dedupe(arr), arr, minCount, 0, Null)

\* Math.round(num / den) for num >= 0, den > 0 (halves round up)
Round(num, den) == (2 * num + den) \div (2 * den)

\* The confidence without its min(length, 5) / 5 factor.
calculateConfidence_unscaled(candidates) ==
    IF Len(candidates) = 0 THEN 0
    ELSE LET maxCount == Max({Count(candidates, candidates[i]) : i \in 1..Len(candidates)})
         IN Min({100, Round(maxCount * 100, Max({Len(candidates), 1}))})

calculateConfidence(candidates) ==
    IF Len(candidates) = 0 THEN 0
    ELSE LET maxCount == Max({Count(candidates, candidates[i]) : i \in 1..Len(candidates)})
             len == Max({Len(candidates), 1})
             \* consistency * 100 * (min(length, 5) / 5), as one fraction
             num == maxCount * 100 * Min({Len(candidates), 5})
             den == len * 5
         IN Min({100, Round(num, den)})

\* slice(0, n) in place of slice(-n): the newest entries are dropped.
SliceLast_keepsOldest(arr, n) ==
    IF Len(arr) <= n THEN arr ELSE SubSeq(arr, 1, n)

\* Array.prototype.slice(-n)
SliceLast(arr, n) ==
    IF Len(arr) <= n THEN arr ELSE SubSeq(arr, Len(arr) - n + 1, Len(arr))
\* Array.prototype.slice(0, 1)
SliceFirst(arr) == IF Len(arr) = 0 THEN <<>> ELSE <<arr[1]>>

\* -------------------------------------------------- DetectionState updates

Phases == {"scanning", "detecting", "locking", "confirmed"}

\* useState<DetectionState>({...}) and resetResults' setDetection({...})
InitialDetection ==
    [phase |-> "scanning", currentScreen |-> "none", confidence |-> 0,
     serialCandidates |-> <<>>, imeiCandidates |-> <<>>, imei2Candidates |-> <<>>,
     confirmedSerial |-> Null, confirmedImei |-> Null, confirmedImei2 |-> Null,
     serialImage |-> NoImage, imeiImage |-> NoImage, frameCount |-> 0]

\* The no-screen update clearing the whole state.
UpdateNoScreen_clears(prev) == InitialDetection

\* setDetection(prev => ({...prev, phase: 'scanning', currentScreen: 'none', confidence: 0}))
UpdateNoScreen(prev) ==
    [prev EXCEPT !.phase = "scanning", !.currentScreen = "none", !.confidence = 0]

\* The screen-found update without its phase change.
UpdateDetecting_keepsPhase(prev, screenType) == [prev EXCEPT !.currentScreen = screenType]

\* setDetection(prev => ({...prev, phase: 'detecting', currentScreen: screenType}))
UpdateDetecting(prev, screenType) ==
    [prev EXCEPT !.phase = "detecting", !.currentScreen = screenType]

\* The phase a candidate update ends in.
\* The phase without its 'locking' branches.
DeterminePhase_noLocking(screenType, confirmedSerial, confirmedImei) ==
    IF confirmedSerial # Null /\ confirmedImei # Null THEN "confirmed" ELSE "detecting"

DeterminePhase(screenType, confirmedSerial, confirmedImei) ==
    IF confirmedSerial # Null /\ confirmedImei # Null THEN "confirmed"
    ELSE IF screenType = "serial" /\ confirmedSerial # Null THEN "locking"
    ELSE IF screenType = "imei" /\ confirmedImei # Null THEN "locking"
    ELSE "detecting"

\* A candidate update that never captures a snapshot.
CaptureImage_never(prevImage, onScreen, confirmed, prevConfirmed, currentFrameImage) ==
    prevImage

\* A snapshot taken only when the field was confirmed before already.
CaptureImage_afterFirst(prevImage, onScreen, confirmed, prevConfirmed, currentFrameImage) ==
    IF onScreen /\ confirmed # Null /\ prevConfirmed # Null
    THEN currentFrameImage ELSE prevImage

\* The evidence snapshot of a field after a candidate update.
CaptureImage(prevImage, onScreen, confirmed, prevConfirmed, currentFrameImage) ==
    IF onScreen /\ confirmed # Null /\ prevConfirmed = Null
    THEN currentFrameImage ELSE prevImage

\* setDetection(prev => {...}) after the fine pass
UpdateCandidates(prev, screenType, serials, imeis, currentFrameImage) ==
    LET newSerialCandidates ==
            IF screenType = "serial"
            THEN SliceLast(prev.serialCandidates \o serials, HISTORY_CAP)
            ELSE prev.serialCandidates
        newImeiCandidates ==
            IF screenType = "imei"
            THEN SliceLast(prev.imeiCandidates \o SliceFirst(imeis), HISTORY_CAP)
            ELSE prev.imeiCandidates
        newImei2Candidates ==
            IF screenType = "imei" /\ Len(imeis) > 1
            THEN SliceLast(Append(prev.imei2Candidates, imeis[2]), HISTORY_CAP)
            ELSE prev.imei2Candidates
        currentConfidence ==
            IF screenType = "serial" THEN calculateConfidence(newSerialCandidates)
            ELSE calculateConfidence(newImeiCandidates)
        confirmedSerial == getMostFrequent(newSerialCandidates, MIN_COUNT)
        confirmedImei == getMostFrequent(newImeiCandidates, MIN_COUNT)
        confirmedImei2 == getMostFrequent(newImei2Candidates, MIN_COUNT)
    IN [phase |-> DeterminePhase(screenType, confirmedSerial, confirmedImei),
        currentScreen |-> screenType,
        confidence |-> currentConfidence,
        serialCandidates |-> newSerialCandidates,
        imeiCandidates |-> newImeiCandidates,
        imei2Candidates |-> newImei2Candidates,
        confirmedSerial |-> confirmedSerial,
        confirmedImei |-> confirmedImei,
        confirmedImei2 |-> confirmedImei2,
        serialImage |-> CaptureImage(prev.serialImage, screenType = "serial",
                                     confirmedSerial, prev.confirmedSerial, currentFrameImage),
        imeiImage |-> CaptureImage(prev.imeiImage, screenType = "imei",
                                   confirmedImei, prev.confirmedImei, currentFrameImage),
        frameCount |-> prev.frameCount + 1]

\* ---------------------------------------------------------- sample texts

\* Texts the OCR engine may return for a frame.
TEXT_NONE == <<"A", "b", "o", "u", "t">>
TEXT_SERIAL_LABEL == <<"S", "e", "r", "i", "a", "l", " ", "N", "u", "m", "b", "e", "r">>
TEXT_IMEI_LABEL == <<"I", "M", "E", "I">>
SERIAL_A == <<"F", "T", "J", "H", "R", "2", "0", "G", "P", "Y">>
\* the same serial misread (J as I, 0 as Q)
SERIAL_B == <<"F", "T", "I", "H", "R", "2", "Q", "G", "P", "Y">>
IMEI_A == <<"3", "5", " ", "6", "9", "3", "8", "0", "3", " ",
            "5", "6", "4", "3", "8", "0", " ", "9">>
IMEI_B == <<"4", "9", "0", "1", "5", "4", "2", "0", "3", "2", "3", "7", "5", "1", "8">>

\* What the coarse pass may read, and what the fine pass may read.
CoarseTexts == {TEXT_NONE, TEXT_SERIAL_LABEL \o <<" ">> \o SERIAL_A, TEXT_IMEI_LABEL \o <<" ">> \o IMEI_A}
FineTexts == {SERIAL_A, SERIAL_B, IMEI_A, IMEI_A \o <<"\n">> \o IMEI_B}
\* A serial that differs from SERIAL_A in its last character.
SerialNo(d) == SubSeq(SERIAL_A, 1, 9) \o <<d>>
\* A screen full of serial-like strings: ten distinct matches, one per line.
TEXT_MANY_SERIALS ==
    SERIAL_A \o <<"\n">> \o SERIAL_B \o <<"\n">> \o SerialNo("1") \o <<"\n">> \o
    SerialNo("2") \o <<"\n">> \o SerialNo("3") \o <<"\n">> \o SerialNo("4") \o <<"\n">> \o
    SerialNo("5") \o <<"\n">> \o SerialNo("6") \o <<"\n">> \o SerialNo("7") \o <<"\n">> \o
    SerialNo("8")
AggCoarseTexts == CoarseTexts
AggFineTexts == {SERIAL_A, SERIAL_B, TEXT_MANY_SERIALS, IMEI_A, IMEI_B,
                 IMEI_A \o <<"\n">> \o IMEI_B}
\* A fine pass whose region holds both values, one per line.
TEXT_BOTH_READ == SERIAL_A \o <<"\n">> \o IMEI_A
LiveTexts == {TEXT_BOTH_READ}
\* Coarse texts that show both labels: with the IMEI value only, with the
\* serial value only, with both values, with neither, and with an unspaced IMEI.
TEXT_BOTH_IMEI_VALUE == TEXT_SERIAL_LABEL \o <<"\n">> \o TEXT_IMEI_LABEL \o <<" ">> \o IMEI_A
TEXT_BOTH_SERIAL_VALUE == TEXT_IMEI_LABEL \o <<"\n">> \o TEXT_SERIAL_LABEL \o <<" ">> \o SERIAL_A
TEXT_BOTH_VALUES ==
    TEXT_SERIAL_LABEL \o <<" ">> \o SERIAL_A \o <<"\n">> \o TEXT_IMEI_LABEL \o <<" ">> \o IMEI_A
TEXT_BOTH_LABELS == TEXT_IMEI_LABEL \o <<"\n">> \o TEXT_SERIAL_LABEL
TEXT_BOTH_UNSPACED == TEXT_SERIAL_LABEL \o <<"\n">> \o TEXT_IMEI_LABEL \o <<" ">> \o IMEI_B
ClassifyTexts == CoarseTexts \cup {TEXT_BOTH_IMEI_VALUE, TEXT_BOTH_SERIAL_VALUE,
                                   TEXT_BOTH_VALUES, TEXT_BOTH_LABELS, TEXT_BOTH_UNSPACED}
\* Fine texts that show the same value on two lines of one frame.
TEXT_SERIAL_TWICE == SERIAL_A \o <<"\n">> \o SERIAL_A
TEXT_IMEI_TWICE == IMEI_A \o <<"\n">> \o IMEI_A
RepeatTexts == {TEXT_SERIAL_TWICE, SERIAL_B \o <<"\n">> \o TEXT_SERIAL_TWICE,
                TEXT_IMEI_TWICE, IMEI_B \o <<"\n">> \o TEXT_IMEI_TWICE}
\* What the extractors return for each sample text, computed once.
serialsOf == [text \in FineTexts \cup AggFineTexts \cup LiveTexts \cup RepeatTexts |->
                 extractSerialNumbers(text)]
imeisOf == [text \in FineTexts \cup AggFineTexts \cup LiveTexts \cup RepeatTexts |->
               extractImeis(text)]
\* Laplacian variances of the low-resolution frame
BlurScores == {0, 99, 100, 250}
\* testImageOptions other than 'Live Camera'
TestImages == {"sample_serial"}

\* ------------------------------------------------------------------- state

VARIABLES
    \* React state of IPhoneSerialPage
    isCameraActive, testImagePath, testImageLoaded, detection,
    \* the state the last committed render closed over (the effect's deps)
    rendered,
    \* refs
    workerRef, isProcessingRef,
    \* the OCR worker: creation pending, its page-segmentation mode
    workerInit, psm,
    \* lastIndex of the module-level global regexes
    lastIndex,
    \* the camera: a getUserMedia request in flight, the error state (setError),
    \* the video element playing
    cameraRequest, error, videoReady,
    \* pending setTimeout callbacks and requestAnimationFrame callbacks, each with
    \* the runDetectionLoop closure it will call; the animation frame whose id
    \* detectLoopRef.current holds is marked latest
    timers, rafs,
    \* the detection cycle in flight (the await it is suspended at)
    cycle,
    \* cycles started so far, and controls operated so far
    nCycles, nClicks

pageVars == <<isCameraActive, testImagePath, testImageLoaded, detection, rendered,
              workerRef, isProcessingRef, workerInit, psm, lastIndex,
              cameraRequest, error, videoReady, timers, rafs, cycle, nCycles, nClicks>>

\* The values a runDetectionLoop closure captures (its useCallback deps).
Closure(cam, path, loaded, phase) ==
    [isCameraActive |-> cam, testImagePath |-> path, testImageLoaded |-> loaded,
     phase |-> phase]
CurrentClosure == Closure(isCameraActive, testImagePath, testImageLoaded, detection.phase)

\* const isActive = isCameraActive || (testImagePath && testImageLoaded)
isActive(clo) == clo.isCameraActive \/ (clo.testImagePath # "" /\ clo.testImageLoaded)

\* No cycle in flight.
IdleCycle ==
    [pc |-> "idle", clo |-> Closure(FALSE, "", FALSE, "scanning"),
     screenType |-> "none", frame |-> 0, text |-> <<>>]

Pending == BagCardinality(timers) + BagCardinality(rafs)
\* Chains of callbacks alive: pending callbacks and the cycle in flight.
Chains == Pending + (IF cycle.pc = "idle" THEN 0 ELSE 1)

\* cancelAnimationFrame(detectLoopRef.current): only the animation frame requested
\* last can be cancelled, and only while it is pending
cancelAnimationFrame(rs) ==
    IF \E r \in BagToSet(rs) : r.latest
    THEN rs (-) SetToBag({CHOOSE r \in BagToSet(rs) : r.latest})
    ELSE rs

\* detectLoopRef.current = requestAnimationFrame(runDetectionLoop)
requestAnimationFrame(rs, clo) ==
    LET old == IF \E r \in BagToSet(rs) : r.latest
               THEN LET r == CHOOSE r \in BagToSet(rs) : r.latest
                    IN (rs (-) SetToBag({r})) (+) SetToBag({[r EXCEPT !.latest = FALSE]})
               ELSE rs
    IN old (+) SetToBag({[clo |-> clo, latest |-> TRUE]})

\* setTimeout(() => { detectLoopRef.current = requestAnimationFrame(runDetectionLoop) }, delay)
setTimeout(ts, clo, delay) == ts (+) SetToBag({[clo |-> clo, delay |-> delay]})

\* captureFrame: whether the closure's source yields a frame (null otherwise)
captureFrame(clo) ==
    IF clo.testImagePath # "" /\ clo.testImageLoaded
    THEN testImagePath # "" /\ testImageLoaded
    ELSE videoReady

\* ------------------------------------------------------- two-pass driver

\* runFastDetection's classification of the recognised text; the two pattern
\* tests run on the global regexes and move their lastIndex
classifyScreen(text, li) ==
    LET hasSerialLabel == hasLabel(text, <<"s", "e", "r", "i", "a", "l">>)
        hasImeiLabel == hasLabel(text, <<"i", "m", "e", "i">>)
        lower == toLowerCase(text)
        imeiTest == RegexTest("IMEI_PATTERN", text, li.IMEI_PATTERN)
        serialTest == RegexTest("SERIAL_PATTERN", text, li.SERIAL_PATTERN)
        tested == [SERIAL_PATTERN |-> serialTest.lastIndex,
                   IMEI_PATTERN |-> imeiTest.lastIndex]
    IN IF hasImeiLabel /\ ~hasSerialLabel THEN [screenType |-> "imei", lastIndex |-> li]
       ELSE IF hasSerialLabel /\ ~hasImeiLabel THEN [screenType |-> "serial", lastIndex |-> li]
       ELSE IF hasSerialLabel \/ hasImeiLabel THEN
            IF imeiTest.result /\ ~serialTest.result
            THEN [screenType |-> "imei", lastIndex |-> tested]
            ELSE IF serialTest.result /\ ~imeiTest.result
            THEN [screenType |-> "serial", lastIndex |-> tested]
            ELSE [screenType |->
                      IF indexOf(lower, <<"i", "m", "e", "i">>)
                             < indexOf(lower, <<"s", "e", "r", "i", "a", "l">>)
                      THEN "imei" ELSE "serial",
                  lastIndex |-> tested]
       ELSE [screenType |-> "none", lastIndex |-> li]

\* tessedit_pageseg_mode of the fine pass
fineMode(screenType) == IF screenType = "serial" THEN "SINGLE_LINE" ELSE "SINGLE_BLOCK"

\* A fine pass followed by the delay of a cycle that found no screen.
nextDelay_asNoScreen(clo) == SCAN_RETRY_DELAY

\* const delay = detection.phase === 'detecting' || detection.phase === 'locking' ? 500 : 300
nextDelay(clo) ==
    IF clo.phase = "detecting" \/ clo.phase = "locking" THEN EXTRACT_DELAY ELSE DEFAULT_DELAY

\* --------------------------------------------------------- detection loop

\* A cycle's end that schedules no further invocation.
EndCycle_noReschedule(clo, delay) ==
    /\ isProcessingRef' = FALSE
    /\ timers' = timers
    /\ cycle' = IdleCycle

\* isProcessingRef.current = false; setTimeout(..., delay); the cycle's frame is over
EndCycle(clo, delay) ==
    /\ isProcessingRef' = FALSE
    /\ timers' = setTimeout(timers, clo, delay)
    /\ cycle' = IdleCycle

\* A setTimeout callback fires: it requests the animation frame.
TimerFires(t) ==
    /\ t \in BagToSet(timers)
    /\ timers' = timers (-) SetToBag({t})
    /\ rafs' = requestAnimationFrame(rafs, t.clo)
    /\ UNCHANGED <<isCameraActive, testImagePath, testImageLoaded, detection, rendered,
                   workerRef, isProcessingRef, workerInit, psm, lastIndex,
                   cameraRequest, error, videoReady, cycle, nCycles, nClicks>>

\* The guard without its isProcessingRef.current test.
skipsCycle_unguarded(clo) == ~isActive(clo) \/ clo.phase = "confirmed"

\* if (!isActive || isProcessingRef.current || detection.phase === 'confirmed'):
\* the invocation does not run a cycle.
skipsCycle(clo) == ~isActive(clo) \/ isProcessingRef \/ clo.phase = "confirmed"

\* A blur test that rejects no frame.
isBlurry_never(blurScore) == FALSE

\* if (blurScore < BLUR_THRESHOLD): the frame is rejected before any OCR.
isBlurry(blurScore) == blurScore < BLUR_THRESHOLD

\* An animation frame fires: runDetectionLoop runs up to its first await.
RunDetectionLoop(r, blur) ==
    LET clo == r.clo
        fired == rafs (-) SetToBag({r})
    IN
    /\ r \in BagToSet(rafs)
    /\ UNCHANGED <<isCameraActive, testImagePath, testImageLoaded, rendered, workerRef,
                   workerInit, psm, lastIndex, cameraRequest, error, videoReady, nClicks>>
    /\ IF skipsCycle(clo)
       THEN \* defer and re-check, or end for good once confirmed
            /\ timers' = IF clo.phase # "confirmed"
                         THEN setTimeout(timers, clo, DEFER_DELAY) ELSE timers
            /\ rafs' = fired
            /\ UNCHANGED <<detection, isProcessingRef, cycle, nCycles>>
       ELSE \* isProcessingRef.current = true: a cycle
            /\ nCycles' = nCycles + 1
            /\ IF ~captureFrame(clo)
               THEN /\ rafs' = requestAnimationFrame(fired, clo)
                    /\ UNCHANGED <<detection, isProcessingRef, cycle, timers>>
               ELSE IF isBlurry(blur)
               THEN /\ rafs' = fired
                    /\ EndCycle(clo, BLUR_RETRY_DELAY)
                    /\ UNCHANGED detection
               ELSE IF workerRef = "null"
               THEN \* runFastDetection returns 'none' without a call
                    /\ rafs' = fired
                    /\ detection' = UpdateNoScreen(detection)
                    /\ EndCycle(clo, SCAN_RETRY_DELAY)
               ELSE \* await worker.recognize(lowRes)
                    /\ rafs' = fired
                    /\ isProcessingRef' = TRUE
                    /\ cycle' = [IdleCycle EXCEPT !.pc = "fastDetection", !.clo = clo,
                                                  !.frame = nCycles + 1]
                    /\ UNCHANGED <<detection, timers>>

\* The rest of a cycle once runFastDetection has returned screenType.
AfterFastDetection(screenType) ==
    IF screenType = "none"
    THEN /\ detection' = UpdateNoScreen(detection)
         /\ EndCycle(cycle.clo, SCAN_RETRY_DELAY)
         /\ UNCHANGED rafs
    ELSE IF ~captureFrame(cycle.clo)
    THEN /\ detection' = UpdateDetecting(detection, screenType)
         /\ isProcessingRef' = FALSE
         /\ rafs' = requestAnimationFrame(rafs, cycle.clo)
         /\ cycle' = IdleCycle
         /\ UNCHANGED timers
    ELSE \* runFullExtraction: await worker.setParameters(fine mode)
         /\ detection' = UpdateDetecting(detection, screenType)
         /\ cycle' = [cycle EXCEPT !.pc = "setParameters", !.screenType = screenType]
         /\ UNCHANGED <<isProcessingRef, rafs, timers>>

\* The coarse recognize call resolves with text.
FastDetectionDone(text) ==
    /\ cycle.pc = "fastDetection"
    /\ lastIndex' = classifyScreen(text, lastIndex).lastIndex
    /\ AfterFastDetection(classifyScreen(text, lastIndex).screenType)
    /\ UNCHANGED <<isCameraActive, testImagePath, testImageLoaded, rendered, workerRef,
                   workerInit, psm, cameraRequest, error, videoReady, nCycles, nClicks>>

\* The coarse recognize call rejects: the catch returns screenType 'none'.
FastDetectionFails ==
    /\ cycle.pc = "fastDetection"
    /\ AfterFastDetection("none")
    /\ UNCHANGED <<isCameraActive, testImagePath, testImageLoaded, rendered, workerRef,
                   workerInit, psm, lastIndex, cameraRequest, error, videoReady, nCycles, nClicks>>

\* The rest of a cycle once runFullExtraction has returned {serials, imeis}.
AfterFullExtraction(serials, imeis) ==
    /\ detection' = UpdateCandidates(detection, cycle.screenType, serials, imeis, cycle.frame)
    /\ EndCycle(cycle.clo, nextDelay(cycle.clo))
    /\ UNCHANGED <<isCameraActive, testImagePath, testImageLoaded, rendered, workerRef,
                   workerInit, cameraRequest, error, videoReady, rafs, nCycles, nClicks>>

\* setParameters(fine mode) resolves: await worker.recognize(crop)
SetParametersDone ==
    /\ cycle.pc = "setParameters"
    /\ psm' = fineMode(cycle.screenType)
    /\ cycle' = [cycle EXCEPT !.pc = "recognize"]
    /\ UNCHANGED <<isCameraActive, testImagePath, testImageLoaded, detection, rendered,
                   workerRef, isProcessingRef, workerInit, lastIndex, cameraRequest, error,
                   videoReady, timers, rafs, nCycles, nClicks>>

\* setParameters(fine mode) rejects: the catch returns no candidates.
SetParametersFails ==
    /\ cycle.pc = "setParameters"
    /\ AfterFullExtraction(<<>>, <<>>)
    /\ UNCHANGED <<psm, lastIndex>>

\* The fine recognize call resolves: await worker.setParameters(SPARSE_TEXT)
RecognizeDone(text) ==
    /\ cycle.pc = "recognize"
    /\ cycle' = [cycle EXCEPT !.pc = "restore", !.text = text]
    /\ UNCHANGED <<isCameraActive, testImagePath, testImageLoaded, detection, rendered,
                   workerRef, isProcessingRef, workerInit, psm, lastIndex, cameraRequest, error,
                   videoReady, timers, rafs, nCycles, nClicks>>

\* The fine recognize call rejects and nothing catches it: the cycle ends there.
RecognizeFails_uncaught ==
    /\ cycle.pc = "recognize"
    /\ cycle' = IdleCycle
    /\ UNCHANGED <<isCameraActive, testImagePath, testImageLoaded, detection, rendered,
                   workerRef, isProcessingRef, workerInit, psm, lastIndex, cameraRequest, error,
                   videoReady, timers, rafs, nCycles, nClicks>>

\* The fine recognize call rejects: the catch returns no candidates.
RecognizeFails ==
    /\ cycle.pc = "recognize"
    /\ AfterFullExtraction(<<>>, <<>>)
    /\ UNCHANGED <<psm, lastIndex>>

\* setParameters(SPARSE_TEXT) resolves: the field of the screen is extracted.
RestoreDone ==
    /\ cycle.pc = "restore"
    /\ psm' = "SPARSE_TEXT"
    /\ IF cycle.screenType = "serial"
       THEN /\ AfterFullExtraction(serialsOf[cycle.text], <<>>)
            /\ lastIndex' = [lastIndex EXCEPT !.SERIAL_PATTERN = 0]
       ELSE /\ AfterFullExtraction(<<>>, imeisOf[cycle.text])
            /\ lastIndex' = [lastIndex EXCEPT !.IMEI_PATTERN = 0]

\* setParameters(SPARSE_TEXT) rejects: the catch returns no candidates.
RestoreFails ==
    /\ cycle.pc = "restore"
    /\ AfterFullExtraction(<<>>, <<>>)
    /\ UNCHANGED <<psm, lastIndex>>

\* ------------------------------------------------- worker, camera, controls

\* createWorker and setParameters(SPARSE_TEXT) resolve: workerRef.current = worker
WorkerReady ==
    /\ workerInit = "pending"
    /\ workerInit' = "done"
    /\ workerRef' = "worker"
    /\ psm' = "SPARSE_TEXT"
    /\ UNCHANGED <<isCameraActive, testImagePath, testImageLoaded, detection, rendered,
                   isProcessingRef, lastIndex, cameraRequest, error, videoReady, timers, rafs,
                   cycle, nCycles, nClicks>>

\* createWorker or setParameters rejects: setError, workerRef.current stays null
WorkerInitFails ==
    /\ workerInit = "pending"
    /\ workerInit' = "failed"
    /\ error' = "worker"
    /\ UNCHANGED <<isCameraActive, testImagePath, testImageLoaded, detection, rendered,
                   workerRef, isProcessingRef, psm, lastIndex, cameraRequest, videoReady,
                   timers, rafs, cycle, nCycles, nClicks>>

\* The Start Camera button (shown while no camera and no test image is active),
\* up to await getUserMedia.
StartCamera ==
    /\ ~isCameraActive /\ testImagePath = ""
    /\ ~cameraRequest
    /\ error' = "null"
    /\ testImagePath' = ""
    /\ cameraRequest' = TRUE
    /\ UNCHANGED <<isCameraActive, testImageLoaded, detection, rendered, workerRef,
                   isProcessingRef, workerInit, psm, lastIndex, videoReady, timers, rafs,
                   cycle, nCycles>>
    /\ nClicks' = nClicks + 1

\* The Start Camera button where navigator.mediaDevices is missing: setError, return.
StartCameraUnavailable ==
    /\ ~isCameraActive /\ testImagePath = ""
    /\ ~cameraRequest
    /\ error' = "camera"
    /\ testImagePath' = ""
    /\ UNCHANGED <<isCameraActive, testImageLoaded, detection, rendered, workerRef,
                   isProcessingRef, workerInit, psm, lastIndex, cameraRequest, videoReady,
                   timers, rafs, cycle, nCycles>>
    /\ nClicks' = nClicks + 1

\* getUserMedia and video.play() resolve: setIsCameraActive(true)
CameraGranted ==
    /\ cameraRequest
    /\ cameraRequest' = FALSE
    /\ videoReady' = TRUE
    /\ isCameraActive' = TRUE
    /\ UNCHANGED <<error, testImagePath, testImageLoaded, detection, rendered, workerRef,
                   isProcessingRef, workerInit, psm, lastIndex, timers, rafs, cycle,
                   nCycles, nClicks>>

\* getUserMedia rejects: setError
CameraDenied ==
    /\ cameraRequest
    /\ cameraRequest' = FALSE
    /\ error' = "camera"
    /\ UNCHANGED <<isCameraActive, testImagePath, testImageLoaded, detection, rendered,
                   workerRef, isProcessingRef, workerInit, psm, lastIndex, videoReady,
                   timers, rafs, cycle, nCycles, nClicks>>

\* The Stop button (shown while the camera is active).
stopCamera ==
    /\ isCameraActive
    /\ rafs' = cancelAnimationFrame(rafs)
    /\ videoReady' = FALSE
    /\ isCameraActive' = FALSE
    /\ UNCHANGED <<testImagePath, testImageLoaded, detection, rendered, workerRef,
                   isProcessingRef, workerInit, psm, lastIndex, cameraRequest, error, timers,
                   cycle, nCycles>>
    /\ nClicks' = nClicks + 1

\* The Reset button (disabled while frameCount is 0).
resetResults ==
    /\ detection.frameCount # 0
    /\ detection' = InitialDetection
    /\ UNCHANGED <<isCameraActive, testImagePath, testImageLoaded, rendered, workerRef,
                   isProcessingRef, workerInit, psm, lastIndex, cameraRequest, error, videoReady,
                   timers, rafs, cycle, nCycles>>
    /\ nClicks' = nClicks + 1

\* The Test Image select (disabled while the camera is active) changes to path.
handleTestImageChange(path) ==
    /\ ~isCameraActive
    /\ path # testImagePath
    /\ testImagePath' = path
    /\ testImageLoaded' = FALSE
    /\ detection' = InitialDetection
    /\ nClicks' = nClicks + 1
    /\ UNCHANGED <<isCameraActive, rendered, workerRef, isProcessingRef, workerInit, psm,
                   lastIndex, cameraRequest, error, videoReady, timers, rafs, cycle, nCycles>>

\* <img onLoad>: setTestImageLoaded(true)
TestImageLoads ==
    /\ testImagePath # "" /\ ~testImageLoaded
    /\ testImageLoaded' = TRUE
    /\ UNCHANGED <<isCameraActive, testImagePath, detection, rendered, workerRef,
                   isProcessingRef, workerInit, psm, lastIndex, cameraRequest, error, videoReady,
                   timers, rafs, cycle, nCycles, nClicks>>

\* <img onError>: setError('Failed to load test image')
TestImageFails ==
    /\ testImagePath # "" /\ ~testImageLoaded
    /\ error' = "image"
    /\ UNCHANGED <<isCameraActive, testImagePath, testImageLoaded, detection, rendered,
                   workerRef, isProcessingRef, workerInit, psm, lastIndex, cameraRequest,
                   videoReady, timers, rafs, cycle, nCycles, nClicks>>

\* An effect that starts the loop whether or not a source is active.
Commit_withoutSource ==
    LET clo == CurrentClosure
        cleaned == cancelAnimationFrame(rafs)
        starts == workerRef = "worker" /\ clo.phase # "confirmed"
    IN
    /\ rendered # clo
    /\ rendered' = clo
    /\ rafs' = IF starts THEN requestAnimationFrame(cleaned, clo) ELSE cleaned
    /\ BagCardinality(rafs') + BagCardinality(timers)
           + (IF cycle.pc = "idle" THEN 0 ELSE 1) <= MaxPending
    /\ UNCHANGED <<isCameraActive, testImagePath, testImageLoaded, detection, workerRef,
                   isProcessingRef, workerInit, psm, lastIndex, cameraRequest, error,
                   videoReady, timers, cycle, nCycles, nClicks>>

\* React commits a render whose deps differ from the last one: the start/stop
\* effect's cleanup runs, then the effect with the new runDetectionLoop closure.
Commit ==
    LET clo == CurrentClosure
        cleaned == cancelAnimationFrame(rafs)
        starts == isActive(clo) /\ workerRef = "worker" /\ clo.phase # "confirmed"
    IN
    /\ rendered # clo
    /\ rendered' = clo
    /\ rafs' = IF starts THEN requestAnimationFrame(cleaned, clo) ELSE cleaned
    /\ BagCardinality(rafs') + BagCardinality(timers)
           + (IF cycle.pc = "idle" THEN 0 ELSE 1) <= MaxPending
    /\ UNCHANGED <<isCameraActive, testImagePath, testImageLoaded, detection, workerRef,
                   isProcessingRef, workerInit, psm, lastIndex, cameraRequest, error, videoReady,
                   timers, cycle, nCycles, nClicks>>

\* ------------------------------------------------------------ CameraOcrPage

\* Object.keys(CARD_REGIONS)
CardFields == <<"idNumber", "nameThai", "nameEnglish", "lastNameEnglish",
                "dateOfBirth", "dateOfIssue", "dateOfExpiry", "laserId">>
\* What cleanFieldValue may return for a field's crop: null or a cleaned value.
CardNull == "null"
CardValues == {"value"}
\* setTimeout delays of the card loop
CARD_DEFER_DELAY == 100
CARD_FOUND_DELAY == 1000
CARD_SEARCH_DELAY == 300

VARIABLES
    \* React state of CameraOcrPage; cardRendered is what the last committed
    \* render closed over
    cardCameraActive, autoExtract, fieldResults, cardFrameCount, cardRendered,
    \* refs: both workers created, isProcessingRef; the video element playing
    cardWorkers, cardProcessingRef, cardVideoReady,
    \* pending timers and animation frames of the card loop, the cycle in flight
    cardTimers, cardRafs, cardCycle,
    \* cycles started and controls operated so far
    nCardCycles, nCardClicks

cardVars == <<cardCameraActive, autoExtract, fieldResults, cardFrameCount, cardRendered,
              cardWorkers, cardProcessingRef, cardVideoReady, cardTimers, cardRafs,
              cardCycle, nCardCycles, nCardClicks>>

\* ------------------------------------------------------------- OcrDebugPage

VARIABLES
    \* workerRef.current of OcrDebugPage: 0 for null, else the worker's number
    debugWorkerRef,
    \* the workers created so far and those terminated
    debugWorkers, debugTerminated,
    \* the runs of the init effect's async init(), each at its await
    debugInits,
    \* the runOcr in flight: its await and the worker its call was made on
    debugRun,
    \* React state: processing
    processing,
    \* OEM / language data changes and runs so far
    nEngineChanges, nDebugRuns

debugVars == <<debugWorkerRef, debugWorkers, debugTerminated, debugInits, debugRun,
               processing, nEngineChanges, nDebugRuns>>

\* ----------------------------------------------------- the pure functions

VARIABLES
    \* the last call of a pure function of the pages (an extractor, a
    \* validator, the crop planner): its name, its argument, what it returned,
    \* and in how many steps the argument was built
    call

\* no call made yet
NoCall == [fn |-> "none", arg |-> <<>>, result |-> <<>>, steps |-> 0]

vars == <<pageVars, cardVars, debugVars, call>>

\* The values a card runDetectionLoop closure captures.
CardClosure(cam, auto) == [isCameraActive |-> cam, autoExtract |-> auto]
CardIdle == [pc |-> "idle", clo |-> CardClosure(FALSE, TRUE), field |-> 0]
EmptyResults == [f \in {CardFields[i] : i \in 1..Len(CardFields)} |-> <<>>]

\* The state after both pages are constructed (useState and useRef initial values).
Init ==
    /\ isCameraActive = FALSE
    /\ testImagePath = ""
    /\ testImageLoaded = FALSE
    /\ detection = InitialDetection
    /\ rendered = Closure(FALSE, "", FALSE, "scanning")
    /\ workerRef = "null"
    /\ isProcessingRef = FALSE
    /\ workerInit = "pending"
    /\ psm = "AUTO"
    /\ lastIndex = [SERIAL_PATTERN |-> 0, IMEI_PATTERN |-> 0]
    /\ cameraRequest = FALSE
    /\ error = "null"
    /\ videoReady = FALSE
    /\ timers = EmptyBag
    /\ rafs = EmptyBag
    /\ cycle = IdleCycle
    /\ nCycles = 0
    /\ nClicks = 0
    /\ cardCameraActive = FALSE
    /\ autoExtract = TRUE
    /\ fieldResults = EmptyResults
    /\ cardFrameCount = 0
    /\ cardRendered = CardClosure(FALSE, TRUE)
    /\ cardWorkers = "null"
    /\ cardProcessingRef = FALSE
    /\ cardVideoReady = FALSE
    /\ cardTimers = EmptyBag
    /\ cardRafs = EmptyBag
    /\ cardCycle = CardIdle
    /\ nCardCycles = 0
    /\ nCardClicks = 0
    /\ debugWorkerRef = 0
    /\ debugWorkers = 0
    /\ debugTerminated = {}
    /\ debugInits = <<"createWorker">>
    /\ debugRun = [pc |-> "idle", worker |-> 0]
    /\ processing = FALSE
    /\ nEngineChanges = 0
    /\ nDebugRuns = 0
    /\ call = NoCall

\* isProcessingRef.current = false; setTimeout(..., foundCard ? 1000 : 300)
CardEndCycle(clo, foundCard) ==
    /\ cardProcessingRef' = FALSE
    /\ cardTimers' = setTimeout(cardTimers, clo,
                                IF foundCard THEN CARD_FOUND_DELAY ELSE CARD_SEARCH_DELAY)
    /\ cardCycle' = CardIdle

\* Both createWorker calls resolve.
CardWorkersReady ==
    /\ cardWorkers = "null"
    /\ cardWorkers' = "ready"
    /\ UNCHANGED <<cardCameraActive, autoExtract, fieldResults, cardFrameCount,
                   cardRendered, cardProcessingRef, cardVideoReady, cardTimers, cardRafs,
                   cardCycle, nCardCycles, nCardClicks>>

\* startCamera: getUserMedia and play() resolve.
CardStartCamera ==
    /\ ~cardCameraActive
    /\ cardCameraActive' = TRUE
    /\ cardVideoReady' = TRUE
    /\ nCardClicks' = nCardClicks + 1
    /\ UNCHANGED <<autoExtract, fieldResults, cardFrameCount, cardRendered, cardWorkers,
                   cardProcessingRef, cardTimers, cardRafs, cardCycle, nCardCycles>>

CardStopCamera ==
    /\ cardCameraActive
    /\ cardRafs' = cancelAnimationFrame(cardRafs)
    /\ cardCameraActive' = FALSE
    /\ cardVideoReady' = FALSE
    /\ nCardClicks' = nCardClicks + 1
    /\ UNCHANGED <<autoExtract, fieldResults, cardFrameCount, cardRendered, cardWorkers,
                   cardProcessingRef, cardTimers, cardCycle, nCardCycles>>

\* The auto-extract checkbox.
CardToggleAutoExtract ==
    /\ autoExtract' = ~autoExtract
    /\ nCardClicks' = nCardClicks + 1
    /\ UNCHANGED <<cardCameraActive, fieldResults, cardFrameCount, cardRendered,
                   cardWorkers, cardProcessingRef, cardVideoReady, cardTimers, cardRafs,
                   cardCycle, nCardCycles>>

\* The start/stop effect of the card page after a render with changed deps.
CardCommit ==
    LET clo == CardClosure(cardCameraActive, autoExtract)
        cleaned == cancelAnimationFrame(cardRafs)
    IN
    /\ cardRendered # clo
    /\ cardRendered' = clo
    /\ cardRafs' = IF clo.isCameraActive /\ cardWorkers = "ready"
                   THEN requestAnimationFrame(cleaned, clo) ELSE cleaned
    /\ BagCardinality(cardRafs') + BagCardinality(cardTimers)
           + (IF cardCycle.pc = "idle" THEN 0 ELSE 1) <= MaxPending
    /\ UNCHANGED <<cardCameraActive, autoExtract, fieldResults, cardFrameCount,
                   cardWorkers, cardProcessingRef, cardVideoReady, cardTimers, cardCycle,
                   nCardCycles, nCardClicks>>

CardTimerFires(t) ==
    /\ t \in BagToSet(cardTimers)
    /\ cardTimers' = cardTimers (-) SetToBag({t})
    /\ cardRafs' = requestAnimationFrame(cardRafs, t.clo)
    /\ UNCHANGED <<cardCameraActive, autoExtract, fieldResults, cardFrameCount,
                   cardRendered, cardWorkers, cardProcessingRef, cardVideoReady, cardCycle,
                   nCardCycles, nCardClicks>>

\* An animation frame fires: the card runDetectionLoop runs up to its first await.
CardRunDetectionLoop(r) ==
    LET clo == r.clo
        fired == cardRafs (-) SetToBag({r})
    IN
    /\ r \in BagToSet(cardRafs)
    /\ cardRafs' = fired
    /\ UNCHANGED <<cardCameraActive, autoExtract, fieldResults, cardFrameCount,
                   cardRendered, cardWorkers, cardVideoReady, nCardClicks>>
    /\ IF ~clo.isCameraActive \/ cardProcessingRef
       THEN /\ cardTimers' = setTimeout(cardTimers, clo, CARD_DEFER_DELAY)
            /\ UNCHANGED <<cardProcessingRef, cardCycle, nCardCycles>>
       ELSE /\ nCardCycles' = nCardCycles + 1
            /\ IF ~cardVideoReady
               THEN \* captureFrame() is null: nothing to detect
                    CardEndCycle(clo, FALSE)
               ELSE \* await detectCard(canvas)
                    /\ cardProcessingRef' = TRUE
                    /\ cardCycle' = [pc |-> "detectCard", clo |-> clo, field |-> 0]
                    /\ UNCHANGED cardTimers

\* detectCard returns bounds (found) or null; its own catch turns a failed
\* recognize into null.
DetectCardDone(found) ==
    /\ cardCycle.pc = "detectCard"
    /\ UNCHANGED <<cardCameraActive, autoExtract, fieldResults, cardRendered, cardWorkers,
                   cardVideoReady, cardRafs, nCardCycles, nCardClicks>>
    /\ IF found /\ cardCycle.clo.autoExtract
       THEN \* extractField(fields[0]): await worker.setParameters(psm)
            /\ cardFrameCount' = cardFrameCount + 1
            /\ cardCycle' = [cardCycle EXCEPT !.pc = "setParameters", !.field = 1]
            /\ UNCHANGED <<cardProcessingRef, cardTimers>>
       ELSE /\ CardEndCycle(cardCycle.clo, found)
            /\ UNCHANGED cardFrameCount

\* extractField: setParameters resolves, await worker.recognize(croppedImage)
CardSetParametersDone ==
    /\ cardCycle.pc = "setParameters"
    /\ cardCycle' = [cardCycle EXCEPT !.pc = "recognize"]
    /\ UNCHANGED <<cardCameraActive, autoExtract, fieldResults, cardFrameCount,
                   cardRendered, cardWorkers, cardProcessingRef, cardVideoReady,
                   cardTimers, cardRafs, nCardCycles, nCardClicks>>

\* extractField: recognize resolves and cleanFieldValue returns value; the loop
\* goes on to the next field, or the cycle ends after the last one.
CardRecognizeDone(value) ==
    LET field == CardFields[cardCycle.field] IN
    /\ cardCycle.pc = "recognize"
    /\ fieldResults' = IF value # CardNull
                       THEN [fieldResults EXCEPT ![field] = Append(@, value)]
                       ELSE fieldResults
    /\ IF cardCycle.field < Len(CardFields)
       THEN /\ cardCycle' = [cardCycle EXCEPT !.pc = "setParameters", !.field = @ + 1]
            /\ UNCHANGED <<cardProcessingRef, cardTimers>>
       ELSE CardEndCycle(cardCycle.clo, TRUE)
    /\ UNCHANGED <<cardCameraActive, autoExtract, cardFrameCount, cardRendered,
                   cardWorkers, cardVideoReady, cardRafs, nCardCycles, nCardClicks>>

\* extractField: setParameters or recognize rejects. Neither extractField nor
\* runDetectionLoop catches: the rejection ends the async function where it is.
CardExtractFieldFails ==
    /\ cardCycle.pc \in {"setParameters", "recognize"}
    /\ cardCycle' = CardIdle
    /\ UNCHANGED <<cardCameraActive, autoExtract, fieldResults, cardFrameCount,
                   cardRendered, cardWorkers, cardProcessingRef, cardVideoReady,
                   cardTimers, cardRafs, nCardCycles, nCardClicks>>

CardNext ==
    \/ CardWorkersReady /\ UNCHANGED <<pageVars, debugVars, call>>
    \/ CardStartCamera /\ nCardClicks' <= MaxClicks /\ UNCHANGED <<pageVars, debugVars, call>>
    \/ CardStopCamera /\ nCardClicks' <= MaxClicks /\ UNCHANGED <<pageVars, debugVars, call>>
    \/ CardToggleAutoExtract /\ nCardClicks' <= MaxClicks /\ UNCHANGED <<pageVars, debugVars, call>>
    \/ CardCommit /\ UNCHANGED <<pageVars, debugVars, call>>
    \/ \E t \in BagToSet(cardTimers) : CardTimerFires(t) /\ UNCHANGED <<pageVars, debugVars, call>>
    \/ \E r \in BagToSet(cardRafs) : CardRunDetectionLoop(r) /\ nCardCycles' <= MaxCardCycles /\ UNCHANGED <<pageVars, debugVars, call>>
    \/ \E found \in BOOLEAN : DetectCardDone(found) /\ UNCHANGED <<pageVars, debugVars, call>>
    \/ CardSetParametersDone /\ UNCHANGED <<pageVars, debugVars, call>>
    \/ \E value \in CardValues \cup {CardNull} : CardRecognizeDone(value) /\ UNCHANGED <<pageVars, debugVars, call>>
    \/ CardExtractFieldFails /\ UNCHANGED <<pageVars, debugVars, call>>

\* CameraOcrPage on its own.
SpecCard == Init /\ [][CardNext]_vars

Next ==
    \/ WorkerReady /\ UNCHANGED <<cardVars, debugVars, call>>
    \/ WorkerInitFails /\ UNCHANGED <<cardVars, debugVars, call>>
    \/ StartCamera /\ nClicks' <= MaxClicks /\ UNCHANGED <<cardVars, debugVars, call>>
    \/ CameraGranted /\ UNCHANGED <<cardVars, debugVars, call>>
    \/ CameraDenied /\ UNCHANGED <<cardVars, debugVars, call>>
    \/ stopCamera /\ nClicks' <= MaxClicks /\ UNCHANGED <<cardVars, debugVars, call>>
    \/ resetResults /\ nClicks' <= MaxClicks /\ UNCHANGED <<cardVars, debugVars, call>>
    \/ \E path \in {""} \cup TestImages :
          handleTestImageChange(path) /\ nClicks' <= MaxClicks
          /\ UNCHANGED <<cardVars, debugVars, call>>
    \/ TestImageLoads /\ UNCHANGED <<cardVars, debugVars, call>>
    \/ Commit /\ UNCHANGED <<cardVars, debugVars, call>>
    \/ \E t \in BagToSet(timers) : TimerFires(t) /\ UNCHANGED <<cardVars, debugVars, call>>
    \/ \E r \in BagToSet(rafs), blur \in BlurScores :
          RunDetectionLoop(r, blur) /\ nCycles' <= MaxCycles
          /\ UNCHANGED <<cardVars, debugVars, call>>
    \/ \E text \in CoarseTexts : FastDetectionDone(text) /\ UNCHANGED <<cardVars, debugVars, call>>
    \/ FastDetectionFails /\ UNCHANGED <<cardVars, debugVars, call>>
    \/ SetParametersDone /\ UNCHANGED <<cardVars, debugVars, call>>
    \/ SetParametersFails /\ UNCHANGED <<cardVars, debugVars, call>>
    \/ \E text \in FineTexts : RecognizeDone(text) /\ UNCHANGED <<cardVars, debugVars, call>>
    \/ RecognizeFails /\ UNCHANGED <<cardVars, debugVars, call>>
    \/ RestoreDone /\ UNCHANGED <<cardVars, debugVars, call>>
    \/ RestoreFails /\ UNCHANGED <<cardVars, debugVars, call>>

\* IPhoneSerialPage on its own.
Spec == Init /\ [][Next]_vars

\* The scanner left running: the camera is started once and never stopped, every
\* frame is sharp and no OCR call fails.
ScanTexts == {SERIAL_A, IMEI_A}
ScanNext ==
    \/ WorkerReady /\ UNCHANGED <<cardVars, debugVars, call>>
    \/ StartCamera /\ UNCHANGED <<cardVars, debugVars, call>>
    \/ CameraGranted /\ UNCHANGED <<cardVars, debugVars, call>>
    \/ Commit /\ UNCHANGED <<cardVars, debugVars, call>>
    \/ \E t \in BagToSet(timers) : TimerFires(t) /\ UNCHANGED <<cardVars, debugVars, call>>
    \/ \E r \in BagToSet(rafs) : RunDetectionLoop(r, 250) /\ nCycles' <= MaxScanCycles /\ UNCHANGED <<cardVars, debugVars, call>>
    \/ \E text \in CoarseTexts : FastDetectionDone(text) /\ UNCHANGED <<cardVars, debugVars, call>>
    \/ SetParametersDone /\ UNCHANGED <<cardVars, debugVars, call>>
    \/ \E text \in ScanTexts : RecognizeDone(text) /\ UNCHANGED <<cardVars, debugVars, call>>
    \/ RestoreDone /\ UNCHANGED <<cardVars, debugVars, call>>

SpecScan == Init /\ [][ScanNext]_vars

\* The DetectionState updates of a run of cycles, one cycle after the other:
\* each cycle's coarse pass reads a text, and its fine pass, if any, another.

\* Lines 474-494: the coarse pass returns and the cycle updates the state.
CycleDetect(text) ==
    LET screenType == classifyScreen(text, lastIndex).screenType IN
    /\ cycle.pc = "idle"
    /\ nCycles' = nCycles + 1
    /\ lastIndex' = classifyScreen(text, lastIndex).lastIndex
    /\ IF screenType = "none"
       THEN detection' = UpdateNoScreen(detection) /\ UNCHANGED cycle
       ELSE /\ detection' = UpdateDetecting(detection, screenType)
            /\ cycle' = [IdleCycle EXCEPT !.pc = "recognize", !.screenType = screenType,
                                          !.frame = nCycles + 1]
    /\ UNCHANGED <<isCameraActive, testImagePath, testImageLoaded, rendered, workerRef,
                   isProcessingRef, workerInit, psm, cameraRequest, error, videoReady, timers,
                   rafs, nClicks>>

\* The fine pass with the two screens' branches swapped.
CycleExtract_swapped(text) ==
    /\ cycle.pc = "recognize"
    /\ detection' =
           IF cycle.screenType = "serial"
           THEN UpdateCandidates(detection, "imei", <<>>, imeisOf[text], cycle.frame)
           ELSE UpdateCandidates(detection, "serial", serialsOf[text], <<>>, cycle.frame)
    /\ lastIndex' = lastIndex
    /\ cycle' = IdleCycle
    /\ UNCHANGED <<isCameraActive, testImagePath, testImageLoaded, rendered, workerRef,
                   isProcessingRef, workerInit, psm, cameraRequest, error, videoReady, timers,
                   rafs, nCycles, nClicks>>

\* Lines 503-576: the fine pass returns text and the cycle updates the state.
CycleExtract(text) ==
    /\ cycle.pc = "recognize"
    /\ detection' =
           IF cycle.screenType = "serial"
           THEN UpdateCandidates(detection, "serial", serialsOf[text], <<>>,
                                 cycle.frame)
           ELSE UpdateCandidates(detection, "imei", <<>>, imeisOf[text], cycle.frame)
    /\ lastIndex' = IF cycle.screenType = "serial"
                    THEN [lastIndex EXCEPT !.SERIAL_PATTERN = 0]
                    ELSE [lastIndex EXCEPT !.IMEI_PATTERN = 0]
    /\ cycle' = IdleCycle
    /\ UNCHANGED <<isCameraActive, testImagePath, testImageLoaded, rendered, workerRef,
                   isProcessingRef, workerInit, psm, cameraRequest, error, videoReady, timers,
                   rafs, nCycles, nClicks>>

AggNext ==
    \/ \E text \in AggCoarseTexts :
          CycleDetect(text) /\ nCycles' <= MaxAggCycles /\ UNCHANGED <<cardVars, debugVars, call>>
    \/ \E text \in AggFineTexts : CycleExtract(text) /\ UNCHANGED <<cardVars, debugVars, call>>
    \/ resetResults /\ nClicks' <= MaxAggResets /\ UNCHANGED <<cardVars, debugVars, call>>

SpecAgg == Init /\ [][AggNext]_vars

\* ------------------------------------------------------------------ claims

\* C1: at most one detection cycle is in flight at any time: the processing
\* guard is held exactly while a cycle is between its start and its release, an
\* invocation starts a cycle only when none is in flight, and an invocation
\* that finds a cycle running (in a loop that is active and not confirmed)
\* changes nothing and schedules a re-check after DEFER_DELAY.
C1_OneCycleInFlight ==
    /\ [](isProcessingRef <=> cycle.pc # "idle")
    /\ [][\A r \in BagToSet(rafs) : \A blur \in BlurScores :
             RunDetectionLoop(r, blur) =>
                 /\ nCycles' # nCycles => (~isProcessingRef /\ cycle.pc = "idle")
                 /\ (isProcessingRef /\ r.clo.phase # "confirmed") =>
                        /\ timers' = setTimeout(timers, r.clo, DEFER_DELAY)
                        /\ UNCHANGED <<detection, isProcessingRef, cycle, psm, nCycles>>
       ]_vars

\* C1's case: a cycle is in flight and an invocation that found it running has
\* scheduled its re-check.
C1_Witness ==
    /\ cycle.pc # "idle"
    /\ \E t \in BagToSet(timers) : t.delay = DEFER_DELAY /\ isActive(t.clo)

\* C7: a cycle whose frame is below BLUR_THRESHOLD makes no OCR call, leaves
\* the DetectionState and the worker untouched, releases the processing guard
\* and schedules the next cycle after BLUR_RETRY_DELAY, every time.
C7_BlurryFrameRejected ==
    [][\A r \in BagToSet(rafs) : \A blur \in BlurScores :
          (/\ RunDetectionLoop(r, blur)
           /\ nCycles' # nCycles
           /\ captureFrame(r.clo)
           /\ blur < BLUR_THRESHOLD)
          => /\ detection' = detection
             /\ cycle' = IdleCycle
             /\ ~isProcessingRef'
             /\ psm' = psm
             /\ timers' = setTimeout(timers, r.clo, BLUR_RETRY_DELAY)
             /\ rafs' = rafs (-) SetToBag({r})
      ]_vars

\* C7's case: with the worker ready, cycles were started and the latest was
\* rejected as blurry: nothing was recorded and the blur retry is pending.
C7_Witness ==
    /\ nCycles = 2
    /\ workerRef = "worker"
    /\ detection = InitialDetection
    /\ ~isProcessingRef
    /\ \E t \in BagToSet(timers) : t.delay = BLUR_RETRY_DELAY

\* C8: when the coarse or the fine OCR call of a cycle fails, the cycle adds no
\* candidate to any history, releases the processing guard and schedules a
\* next cycle.
C8_OcrFailureAbsorbed ==
    [][(FastDetectionFails \/ SetParametersFails \/ RecognizeFails \/ RestoreFails)
          => /\ detection'.serialCandidates = detection.serialCandidates
             /\ detection'.imeiCandidates = detection.imeiCandidates
             /\ detection'.imei2Candidates = detection.imei2Candidates
             /\ ~isProcessingRef'
             /\ cycle' = IdleCycle
             /\ \E t \in BagToSet(timers') :
                   CopiesIn(t, timers') = CopiesIn(t, timers) + 1
      ]_vars

\* C8's case: a fine pass failed after switching the mode, the guard is free
\* and the next cycle is scheduled.
C8_Witness ==
    /\ psm \in {"SINGLE_LINE", "SINGLE_BLOCK"}
    /\ cycle.pc = "idle"
    /\ ~isProcessingRef
    /\ timers # EmptyBag

\* C10: whenever a coarse pass begins, the worker's page-segmentation mode is
\* SPARSE_TEXT.
C10_CoarsePassInSparseText == cycle.pc = "fastDetection" => psm = "SPARSE_TEXT"

\* C2: between resets, once a field has a confirmed value, the value stays the
\* same after every later step.
C2_ConfirmedValueStays ==
    [][detection' # InitialDetection =>
          /\ detection.confirmedSerial # Null
                 => detection'.confirmedSerial = detection.confirmedSerial
          /\ detection.confirmedImei # Null
                 => detection'.confirmedImei = detection.confirmedImei
          /\ detection.confirmedImei2 # Null
                 => detection'.confirmedImei2 = detection.confirmedImei2
      ]_vars

\* C3: once the phase is 'confirmed', it stays 'confirmed' in every step that
\* is not a reset.
C3_ConfirmedIsTerminal ==
    [][(detection.phase = "confirmed" /\ detection' # InitialDetection)
          => detection'.phase = "confirmed"]_vars

\* C4: after the phase is 'confirmed', no detection cycle starts and no OCR
\* call is pending or made.
C4_NoCycleOnceConfirmed ==
    [][detection.phase = "confirmed" =>
          (nCycles' = nCycles /\ cycle.pc = "idle" /\ cycle'.pc = "idle")]_vars

\* C5: for each field, the confirmed value is non-null exactly when some
\* string occurs at least 3 times in the field's history, and a non-null
\* confirmed value occurs in the history as often as any other string.
C5_ConfirmedIffSupported ==
    \A field \in {<<detection.serialCandidates, detection.confirmedSerial>>,
                  <<detection.imeiCandidates, detection.confirmedImei>>,
                  <<detection.imei2Candidates, detection.confirmedImei2>>} :
        LET history == field[1]
            confirmed == field[2]
        IN /\ confirmed # Null <=>
                  \E i \in 1..Len(history) : Count(history, history[i]) >= 3
           /\ confirmed # Null =>
                  /\ Count(history, confirmed) >= 3
                  /\ \A i \in 1..Len(history) :
                        Count(history, history[i]) <= Count(history, confirmed)

\* C5's case: a serial is confirmed while another string of the history has two
\* occurrences, one short of the threshold.
C5_Witness ==
    /\ detection.confirmedSerial # Null
    /\ \E i \in 1..Len(detection.serialCandidates) :
          /\ detection.serialCandidates[i] # detection.confirmedSerial
          /\ Count(detection.serialCandidates, detection.serialCandidates[i]) = 2

\* C6: between resets, an evidence snapshot that has been assigned is never
\* assigned again.
C6_SnapshotAssignedOnce ==
    [][detection' # InitialDetection =>
          /\ detection.serialImage # NoImage
                 => detection'.serialImage = detection.serialImage
          /\ detection.imeiImage # NoImage
                 => detection'.imeiImage = detection.imeiImage
      ]_vars

\* C9: in the card loop, a failed per-field OCR call releases the processing
\* guard and leaves a next cycle scheduled.
C9_CardFailureAbsorbed ==
    [][CardExtractFieldFails =>
          /\ ~cardProcessingRef'
          /\ \E t \in BagToSet(cardTimers') :
                CopiesIn(t, cardTimers') = CopiesIn(t, cardTimers) + 1
      ]_vars

\* The camera started and stopped by the user, no test image: the only way
\* capture ends is stopCamera.
StopNext ==
    \/ WorkerReady /\ UNCHANGED <<cardVars, debugVars, call>>
    \/ StartCamera /\ nClicks' <= MaxClicks /\ UNCHANGED <<cardVars, debugVars, call>>
    \/ CameraGranted /\ UNCHANGED <<cardVars, debugVars, call>>
    \/ stopCamera /\ nClicks' <= MaxClicks /\ UNCHANGED <<cardVars, debugVars, call>>
    \/ Commit /\ UNCHANGED <<cardVars, debugVars, call>>
    \/ \E t \in BagToSet(timers) : TimerFires(t) /\ UNCHANGED <<cardVars, debugVars, call>>
    \/ \E r \in BagToSet(rafs), blur \in BlurScores :
          RunDetectionLoop(r, blur) /\ nCycles' <= MaxCycles
          /\ UNCHANGED <<cardVars, debugVars, call>>
    \/ \E text \in CoarseTexts : FastDetectionDone(text) /\ UNCHANGED <<cardVars, debugVars, call>>
    \/ SetParametersDone /\ UNCHANGED <<cardVars, debugVars, call>>
    \/ \E text \in ScanTexts : RecognizeDone(text) /\ UNCHANGED <<cardVars, debugVars, call>>
    \/ RestoreDone /\ UNCHANGED <<cardVars, debugVars, call>>

SpecStop == Init /\ [][StopNext]_vars

\* C11: while the camera is stopped (and no test image is selected), no
\* detection cycle begins and no OCR call is started.
C11_NoCycleAfterStop ==
    [][(~isCameraActive /\ ~isCameraActive' /\ testImagePath = "")
          => /\ nCycles' = nCycles
             /\ cycle'.pc # cycle.pc => cycle'.pc = "idle"
      ]_vars

\* C12: when the camera was stopped while a cycle was awaiting an OCR call,
\* the completion of the call leaves the DetectionState unchanged.
C12_CompletionAfterStopIsNoOp ==
    [][(~isCameraActive /\ cycle.pc # "idle" /\ cycle'.pc # cycle.pc)
          => detection' = detection]_vars

\* C13: every candidate history has at most 20 entries, and a fine pass leaves
\* each history equal to the last 20 entries of the previous history followed
\* by the candidates appended to it (all serials; the first IMEI; the second
\* IMEI), in arrival order.
C13_SlidingWindow ==
    /\ [](/\ Len(detection.serialCandidates) <= 20
          /\ Len(detection.imeiCandidates) <= 20
          /\ Len(detection.imei2Candidates) <= 20)
    /\ [][\A text \in AggFineTexts :
             CycleExtract(text) =>
                 LET serial == cycle.screenType = "serial"
                     imeis == imeisOf[text]
                     Window(all) ==
                         [i \in 1..Min({Len(all), 20}) |->
                             all[Len(all) - Min({Len(all), 20}) + i]]
                 IN /\ detection'.serialCandidates =
                           Window(detection.serialCandidates
                                  \o (IF serial THEN serialsOf[text] ELSE <<>>))
                    /\ detection'.imeiCandidates =
                           Window(detection.imeiCandidates
                                  \o (IF ~serial /\ Len(imeis) > 0
                                      THEN <<imeis[1]>> ELSE <<>>))
                    /\ detection'.imei2Candidates =
                           Window(detection.imei2Candidates
                                  \o (IF ~serial /\ Len(imeis) > 1
                                      THEN <<imeis[2]>> ELSE <<>>))
       ]_vars

\* C13's case: the serial history is full and its oldest entries were evicted
\* (it starts in the middle of a ten-serial reading).
C13_Witness ==
    /\ Len(detection.serialCandidates) = 20
    /\ detection.serialCandidates[1] = SerialNo("1")

\* C14: a cycle on the serial screen leaves the IMEI histories, confirmations
\* and snapshot unchanged, and a cycle on the imei screen leaves the serial
\* history, confirmation and snapshot unchanged.
C14_OtherScreenUntouched ==
    [][cycle' # cycle =>
          LET screen == IF cycle.pc = "idle" THEN cycle'.screenType ELSE cycle.screenType
          IN /\ screen = "serial" =>
                    /\ detection'.imeiCandidates = detection.imeiCandidates
                    /\ detection'.imei2Candidates = detection.imei2Candidates
                    /\ detection'.confirmedImei = detection.confirmedImei
                    /\ detection'.confirmedImei2 = detection.confirmedImei2
                    /\ detection'.imeiImage = detection.imeiImage
             /\ screen = "imei" =>
                    /\ detection'.serialCandidates = detection.serialCandidates
                    /\ detection'.confirmedSerial = detection.confirmedSerial
                    /\ detection'.serialImage = detection.serialImage
      ]_vars

\* C14's case: a fine pass on the serial screen has added a serial while an
\* IMEI was already confirmed with its snapshot.
C14_Witness ==
    /\ detection.currentScreen = "serial"
    /\ cycle.pc = "idle"
    /\ Len(detection.serialCandidates) > 0
    /\ detection.confirmedImei # Null
    /\ detection.imeiImage # NoImage

\* C17 as stated: when two or more distinct strings share the maximal
\* occurrence count of a history, getMostFrequent returns no value.
C17_TieGivesNoValue ==
    \A history \in {detection.serialCandidates, detection.imeiCandidates,
                    detection.imei2Candidates} :
        (\E i, j \in 1..Len(history) :
            /\ history[i] # history[j]
            /\ Count(history, history[i]) = Count(history, history[j])
            /\ \A k \in 1..Len(history) :
                  Count(history, history[k]) <= Count(history, history[i]))
        => getMostFrequent(history, MIN_COUNT) = Null

\* C17, amended: getMostFrequent returns no value exactly when no string
\* reaches minSupport occurrences; otherwise it returns, among the strings with
\* the maximal count, the one whose first occurrence in the history is the
\* earliest, so a tie does not withhold the value.
C17_TieGivesEarliestValue ==
    \A history \in {detection.serialCandidates, detection.imeiCandidates,
                    detection.imei2Candidates} :
        LET best == {i \in 1..Len(history) :
                        \A k \in 1..Len(history) :
                            Count(history, history[k]) <= Count(history, history[i])}
        IN IF history = <<>> \/ \A i \in best : Count(history, history[i]) < 3
           THEN getMostFrequent(history, MIN_COUNT) = Null
           ELSE getMostFrequent(history, MIN_COUNT) = history[Min(best)]

\* C17's case: two distinct strings of the serial history share the maximal
\* count, which is at least 3.
C17_Witness ==
    \E i, j \in 1..Len(detection.serialCandidates) :
        /\ detection.serialCandidates[i] # detection.serialCandidates[j]
        /\ Count(detection.serialCandidates, detection.serialCandidates[i]) >= 3
        /\ Count(detection.serialCandidates, detection.serialCandidates[i])
               = Count(detection.serialCandidates, detection.serialCandidates[j])
        /\ \A k \in 1..Len(detection.serialCandidates) :
              Count(detection.serialCandidates, detection.serialCandidates[k])
                  <= Count(detection.serialCandidates, detection.serialCandidates[i])

\* C15: a cycle whose coarse pass finds no field screen, or fails, sets the
\* phase to 'scanning', the screen to 'none' and the confidence to 0, runs no
\* fine pass, and leaves every other field of the DetectionState unchanged.
C15_NoScreenCycle ==
    [][(\/ FastDetectionFails
        \/ \E text \in CoarseTexts :
              /\ classifyScreen(text, lastIndex).screenType = "none"
              /\ FastDetectionDone(text))
          => /\ detection' = [detection EXCEPT !.phase = "scanning",
                                               !.currentScreen = "none",
                                               !.confidence = 0]
             /\ cycle'.pc = "idle"
             /\ psm' = psm
      ]_vars

\* C15's case: after a fine pass had recorded a candidate, a cycle found no
\* field screen.
C15_Witness ==
    /\ detection.phase = "scanning"
    /\ detection.currentScreen = "none"
    /\ detection.frameCount > 0
    /\ Len(detection.serialCandidates) + Len(detection.imeiCandidates) > 0

\* C16: after a cycle completes a fine pass, the phase is 'confirmed' when
\* serial and imei are both confirmed, otherwise 'locking' when the field of
\* the cycle's screen is confirmed, otherwise 'detecting'.
C16_PhaseAfterFinePass ==
    [][(cycle.pc \in {"setParameters", "recognize", "restore"} /\ cycle'.pc = "idle")
          => detection'.phase =
                 IF detection'.confirmedSerial # Null /\ detection'.confirmedImei # Null
                 THEN "confirmed"
                 ELSE IF \/ cycle.screenType = "serial" /\ detection'.confirmedSerial # Null
                         \/ cycle.screenType = "imei" /\ detection'.confirmedImei # Null
                 THEN "locking"
                 ELSE "detecting"
      ]_vars

\* C16's case: the phase is 'confirmed' with serial and imei confirmed and no
\* second IMEI.
C16_Witness ==
    /\ detection.phase = "confirmed"
    /\ detection.confirmedSerial # Null
    /\ detection.confirmedImei # Null
    /\ detection.confirmedImei2 = Null

ClassifyNext ==
    \/ \E text \in ClassifyTexts :
          CycleDetect(text) /\ nCycles' <= MaxClassifyCycles /\ UNCHANGED <<cardVars, debugVars, call>>
    \/ \E text \in ScanTexts : CycleExtract(text) /\ UNCHANGED <<cardVars, debugVars, call>>

SpecClassify == Init /\ [][ClassifyNext]_vars

\* C19: the coarse text is classified imei when only the 'imei' keyword is in
\* it, serial when only 'serial' is, none when neither is; with both keywords,
\* imei when only the IMEI pattern matches the text, serial when only the
\* serial pattern matches, and otherwise by the keyword that comes first.
C19_Classification ==
    [][\A text \in ClassifyTexts :
          CycleDetect(text) =>
              LET serialLabel == hasLabel(text, <<"s", "e", "r", "i", "a", "l">>)
                  imeiLabel == hasLabel(text, <<"i", "m", "e", "i">>)
                  serialValue == RegexExec("SERIAL_PATTERN", text, 0)[1] >= 0
                  imeiValue == RegexExec("IMEI_PATTERN", text, 0)[1] >= 0
                  imeiFirst == indexOf(toLowerCase(text), <<"i", "m", "e", "i">>)
                                   < indexOf(toLowerCase(text),
                                             <<"s", "e", "r", "i", "a", "l">>)
              IN detection'.currentScreen =
                     IF imeiLabel /\ ~serialLabel THEN "imei"
                     ELSE IF serialLabel /\ ~imeiLabel THEN "serial"
                     ELSE IF ~serialLabel /\ ~imeiLabel THEN "none"
                     ELSE IF imeiValue /\ ~serialValue THEN "imei"
                     ELSE IF serialValue /\ ~imeiValue THEN "serial"
                     ELSE IF imeiFirst THEN "imei" ELSE "serial"
      ]_vars

\* The live scan with the Reset button: the camera is started once, sharp
\* frames of the serial or the IMEI screen or of neither, and Reset pressed.
LiveRun == \E r \in BagToSet(rafs) : RunDetectionLoop(r, 250) /\ nCycles' <= MaxLiveCycles
LiveTimer == \E t \in BagToSet(timers) : TimerFires(t)
LiveOcr ==
    \/ \E text \in CoarseTexts : FastDetectionDone(text)
    \/ SetParametersDone
    \/ \E text \in LiveTexts : RecognizeDone(text)
    \/ RestoreDone

LiveNext ==
    \/ WorkerReady /\ UNCHANGED <<cardVars, debugVars, call>>
    \/ StartCamera /\ UNCHANGED <<cardVars, debugVars, call>>
    \/ CameraGranted /\ UNCHANGED <<cardVars, debugVars, call>>
    \/ resetResults /\ nClicks' <= MaxLiveClicks /\ UNCHANGED <<cardVars, debugVars, call>>
    \/ Commit /\ UNCHANGED <<cardVars, debugVars, call>>
    \/ LiveTimer /\ UNCHANGED <<cardVars, debugVars, call>>
    \/ LiveRun /\ UNCHANGED <<cardVars, debugVars, call>>
    \/ LiveOcr /\ UNCHANGED <<cardVars, debugVars, call>>

\* The worker answers every call. The completion of a call is enabled exactly
\* while the cycle waits for it and is the only step that ends the wait, so
\* weak fairness of the completion is the same as the wait ending again and
\* again; it is written so for the coarse recognize and the restoring
\* setParameters calls.
WorkerAnswers ==
    /\ WF_vars(SetParametersDone /\ UNCHANGED <<cardVars, debugVars, call>>)
    /\ WF_vars((\E text \in LiveTexts : RecognizeDone(text)) /\ UNCHANGED <<cardVars, debugVars, call>>)
    /\ []<>(cycle.pc # "fastDetection")
    /\ []<>(cycle.pc # "restore")

\* React commits a render, a timer that is due fires, a requested animation
\* frame is delivered, and the worker answers every call.
SpecLive ==
    /\ Init /\ [][LiveNext]_vars
    /\ WF_vars(Commit /\ UNCHANGED <<cardVars, debugVars, call>>)
    /\ WF_vars(LiveTimer /\ UNCHANGED <<cardVars, debugVars, call>>)
    /\ WF_vars(LiveRun /\ UNCHANGED <<cardVars, debugVars, call>>)
    /\ WorkerAnswers

\* C20: Reset puts DetectionState back to its initial value, and once it has
\* been pressed, with the camera active and the worker ready, a detection
\* cycle starts whenever none is in flight, whatever the phase was when Reset
\* was pressed.
C20_ResetKeepsScanning ==
    /\ [][(nClicks' = nClicks + 1 /\ isCameraActive) => detection' = InitialDetection]_vars
    /\ (/\ nClicks >= 2 /\ isCameraActive /\ workerRef = "worker"
        /\ cycle.pc = "idle" /\ nCycles < MaxLiveCycles) ~> (cycle.pc # "idle")

\* Reset has just been pressed in phase 'confirmed': the committed render is
\* still the confirmed one.
C20_Witness ==
    /\ nClicks >= 2 /\ detection = InitialDetection
    /\ isCameraActive /\ workerRef = "worker"
    /\ rendered.phase = "confirmed"

\* The page with capture sources that may fail: the camera may be missing
\* or refused, the test image may fail to load.
SourceNext ==
    \/ WorkerReady /\ UNCHANGED <<cardVars, debugVars, call>>
    \/ WorkerInitFails /\ UNCHANGED <<cardVars, debugVars, call>>
    \/ StartCamera /\ nClicks' <= MaxSourceClicks /\ UNCHANGED <<cardVars, debugVars, call>>
    \/ StartCameraUnavailable /\ nClicks' <= MaxSourceClicks /\ UNCHANGED <<cardVars, debugVars, call>>
    \/ CameraGranted /\ UNCHANGED <<cardVars, debugVars, call>>
    \/ CameraDenied /\ UNCHANGED <<cardVars, debugVars, call>>
    \/ stopCamera /\ nClicks' <= MaxSourceClicks /\ UNCHANGED <<cardVars, debugVars, call>>
    \/ \E path \in {""} \cup TestImages :
          handleTestImageChange(path) /\ nClicks' <= MaxSourceClicks
          /\ UNCHANGED <<cardVars, debugVars, call>>
    \/ TestImageLoads /\ UNCHANGED <<cardVars, debugVars, call>>
    \/ TestImageFails /\ UNCHANGED <<cardVars, debugVars, call>>
    \/ Commit /\ UNCHANGED <<cardVars, debugVars, call>>
    \/ \E t \in BagToSet(timers) : TimerFires(t) /\ UNCHANGED <<cardVars, debugVars, call>>
    \/ \E r \in BagToSet(rafs), blur \in {99, 250} :
          RunDetectionLoop(r, blur) /\ nCycles' <= MaxSourceCycles
          /\ UNCHANGED <<cardVars, debugVars, call>>
    \/ \E text \in CoarseTexts : FastDetectionDone(text) /\ UNCHANGED <<cardVars, debugVars, call>>
    \/ SetParametersDone /\ UNCHANGED <<cardVars, debugVars, call>>
    \/ \E text \in ScanTexts : RecognizeDone(text) /\ UNCHANGED <<cardVars, debugVars, call>>
    \/ RestoreDone /\ UNCHANGED <<cardVars, debugVars, call>>

SpecSource == Init /\ [][SourceNext]_vars

\* No capture source is active: the camera is off and no test image is loaded.
NoSource == ~isCameraActive /\ ~(testImagePath # "" /\ testImageLoaded)

C22_DelayOrderedByOutcome ==
    [][LET NewDelays ==
               {t.delay : t \in {u \in BagToSet(timers') :
                                    CopiesIn(u, timers') > CopiesIn(u, timers)}}
           Ran(blurred) ==
               \E r \in BagToSet(rafs), blur \in BlurScores :
                   /\ RunDetectionLoop(r, blur) /\ isBlurry(blur) = blurred
                   /\ nCycles' = nCycles + 1 /\ NewDelays # {}
           blurry == Ran(TRUE)
           noScreen == \/ Ran(FALSE)
                       \/ /\ cycle.pc = "fastDetection" /\ cycle'.pc = "idle"
                          /\ NewDelays # {}
           finePass == /\ cycle.pc \in {"setParameters", "recognize", "restore"}
                       /\ cycle'.pc = "idle"
       IN /\ blurry => \A d \in NewDelays : d < SCAN_RETRY_DELAY
          /\ noScreen => \A d \in NewDelays :
                             BLUR_RETRY_DELAY < d /\ d = SCAN_RETRY_DELAY
          /\ finePass => NewDelays # {} /\ \A d \in NewDelays : SCAN_RETRY_DELAY < d
      ]_vars

\* A blurry cycle's timer and a fine pass's timer are pending together.
C22_Witness ==
    \E t, u \in BagToSet(timers) :
        t.delay = BLUR_RETRY_DELAY /\ u.delay \in {EXTRACT_DELAY, DEFAULT_DELAY}

\* calculateConfidence on histories of up to MaxConfidenceLen values: the
\* serial history grows by one value at a time, values in the order of
\* ConfidenceValues, and the confidence is that of the history.
ConfidenceValues == <<SERIAL_A, SERIAL_B, SerialNo("1"), SerialNo("2")>>

AppendCandidate(k) ==
    LET history == detection.serialCandidates
        new == Append(history, ConfidenceValues[k])
    IN
    /\ Len(history) < MaxConfidenceLen
    /\ IF history = <<>> THEN TRUE
       ELSE \E j \in 1..k : history[Len(history)] = ConfidenceValues[j]
    /\ detection' = [detection EXCEPT !.serialCandidates = new,
                                      !.confidence = calculateConfidence(new)]
    /\ UNCHANGED <<isCameraActive, testImagePath, testImageLoaded, rendered, workerRef,
                   isProcessingRef, workerInit, psm, lastIndex, cameraRequest, error,
                   videoReady, timers, rafs, cycle, nCycles, nClicks>>

ConfidenceNext == \E k \in 1..Len(ConfidenceValues) : AppendCandidate(k) /\ UNCHANGED <<cardVars, debugVars, call>>

SpecConfidence == Init /\ [][ConfidenceNext]_vars

\* C23: calculateConfidence returns an integer in 0..100 for every history of
\* up to 20 values, 0 for the empty history, at most 20 for a history of one
\* value, and exactly 100 for five or more identical values.
C23_ConfidenceRange ==
    LET history == detection.serialCandidates
        confidence == calculateConfidence(history)
    IN /\ confidence \in 0..100
       /\ detection.confidence = confidence
       /\ Len(history) = 0 => confidence = 0
       /\ Len(history) = 1 => confidence <= 20
       /\ (Len(history) >= 5 /\ \A i \in 1..Len(history) : history[i] = history[1])
              => confidence = 100

\* Twenty identical values, and the confidence is 100.
C23_Witness ==
    /\ Len(detection.serialCandidates) = 20
    /\ \A i \in 1..20 : detection.serialCandidates[i] = SERIAL_A
    /\ detection.confidence = 100

\* ------------------------------------------------------------ OcrDebugPage
\* The init effect and runOcr of OcrDebugPage.

DebugIdle == [pc |-> "idle", worker |-> 0]
\* The awaits of runOcr that are calls on the worker.
DebugCalls == {"setParameters1", "recognize1", "setParameters2", "recognize2"}

\* runOcr reaches workerRef.current.setParameters / recognize: the call is made
\* on the worker the ref holds then, and throws when the ref is null.
DebugCall(pc) ==
    IF debugWorkerRef = 0 THEN [pc |-> "threw", worker |-> 0]
    ELSE [pc |-> pc, worker |-> debugWorkerRef]

\* The OEM or language select changes: the effect's cleanup terminates the
\* worker in the ref, then init() runs up to its first await.
ChangeEngine ==
    /\ nEngineChanges' = nEngineChanges + 1
    /\ debugTerminated' = IF debugWorkerRef # 0
                          THEN debugTerminated \cup {debugWorkerRef} ELSE debugTerminated
    /\ debugInits' = Append(debugInits,
                            IF debugWorkerRef # 0 THEN "terminate" ELSE "createWorker")
    /\ UNCHANGED <<debugWorkerRef, debugWorkers, debugRun, processing, nDebugRuns>>

\* await workerRef.current.terminate() resolves: workerRef.current = null, then
\* await Tesseract.createWorker(...)
InitTerminated(i) ==
    /\ debugInits[i] = "terminate"
    /\ debugWorkerRef' = 0
    /\ debugInits' = [debugInits EXCEPT ![i] = "createWorker"]
    /\ UNCHANGED <<debugWorkers, debugTerminated, debugRun, processing, nEngineChanges,
                   nDebugRuns>>

\* createWorker resolves: workerRef.current = worker
InitCreated(i) ==
    /\ debugInits[i] = "createWorker"
    /\ debugWorkers' = debugWorkers + 1
    /\ debugWorkerRef' = debugWorkers + 1
    /\ debugInits' = [debugInits EXCEPT ![i] = "done"]
    /\ UNCHANGED <<debugTerminated, debugRun, processing, nEngineChanges, nDebugRuns>>

\* The Run OCR button (disabled while processing), up to await img.onload
runOcr ==
    /\ debugWorkerRef # 0 /\ ~processing
    /\ processing' = TRUE
    /\ debugRun' = [pc |-> "imageLoad", worker |-> 0]
    /\ nDebugRuns' = nDebugRuns + 1
    /\ UNCHANGED <<debugWorkerRef, debugWorkers, debugTerminated, debugInits,
                   nEngineChanges>>

\* img.onload: await workerRef.current.setParameters(SPARSE_TEXT)
DebugImageLoaded ==
    /\ debugRun.pc = "imageLoad"
    /\ debugRun' = DebugCall("setParameters1")
    /\ UNCHANGED <<debugWorkerRef, debugWorkers, debugTerminated, debugInits, processing,
                   nEngineChanges, nDebugRuns>>

\* A call on a live worker resolves and runOcr goes on to its next await;
\* labelFound is whether pass 1 found the label.
DebugCallResolves(labelFound) ==
    /\ debugRun.pc \in DebugCalls
    /\ debugRun.worker \notin debugTerminated
    /\ IF debugRun.pc = "setParameters1"
       THEN debugRun' = DebugCall("recognize1") /\ UNCHANGED processing
       ELSE IF debugRun.pc = "recognize1" /\ labelFound
       THEN debugRun' = DebugCall("setParameters2") /\ UNCHANGED processing
       ELSE IF debugRun.pc = "setParameters2"
       THEN debugRun' = DebugCall("recognize2") /\ UNCHANGED processing
       ELSE debugRun' = DebugIdle /\ processing' = FALSE
    /\ UNCHANGED <<debugWorkerRef, debugWorkers, debugTerminated, debugInits,
                   nEngineChanges, nDebugRuns>>

\* A call on a terminated worker rejects (it may also never settle): runOcr
\* ends there, with processing still true.
DebugCallRejects ==
    /\ debugRun.pc \in DebugCalls
    /\ debugRun.worker \in debugTerminated
    /\ debugRun' = [pc |-> "threw", worker |-> 0]
    /\ UNCHANGED <<debugWorkerRef, debugWorkers, debugTerminated, debugInits, processing,
                   nEngineChanges, nDebugRuns>>

DebugNext ==
    \/ ChangeEngine /\ nEngineChanges' <= MaxEngineChanges /\ UNCHANGED <<pageVars, cardVars, call>>
    \/ \E i \in DOMAIN debugInits : InitTerminated(i) /\ UNCHANGED <<pageVars, cardVars, call>>
    \/ \E i \in DOMAIN debugInits : InitCreated(i) /\ UNCHANGED <<pageVars, cardVars, call>>
    \/ runOcr /\ nDebugRuns' <= MaxDebugRuns /\ UNCHANGED <<pageVars, cardVars, call>>
    \/ DebugImageLoaded /\ UNCHANGED <<pageVars, cardVars, call>>
    \/ \E labelFound \in BOOLEAN :
          DebugCallResolves(labelFound) /\ UNCHANGED <<pageVars, cardVars, call>>
    \/ DebugCallRejects /\ UNCHANGED <<pageVars, cardVars, call>>

SpecDebug == Init /\ [][DebugNext]_vars

\* C24: re-initializing the engine never terminates or replaces the worker
\* while a call of runOcr made on that worker is in flight, and every
\* setParameters / recognize call of a run is made on a live worker.
C24_NoReinitDuringRun ==
    /\ debugRun.pc # "threw"
    /\ debugRun.pc \in DebugCalls =>
           /\ debugRun.worker \notin debugTerminated
           /\ debugWorkerRef = debugRun.worker

\* C25: in every reachable DetectionState the phase is 'scanning' exactly
\* when the current screen is 'none'.
C25_ScanningIffNoScreen ==
    (detection.phase = "scanning") <=> (detection.currentScreen = "none")

\* A cycle that found no screen after a fine pass had recorded a candidate.
C25_Witness ==
    /\ detection.phase = "scanning" /\ detection.currentScreen = "none"
    /\ detection.frameCount > 0
    /\ Len(detection.serialCandidates) + Len(detection.imeiCandidates) > 0

\* C26: in every reachable DetectionState a confirmed serial has a serial
\* snapshot and a confirmed IMEI has an IMEI snapshot.
C26_ConfirmedHasSnapshot ==
    /\ detection.confirmedSerial # Null => detection.serialImage # NoImage
    /\ detection.confirmedImei # Null => detection.imeiImage # NoImage

\* A field is confirmed, with its snapshot, after a reset had cleared the state.
C26_Witness ==
    /\ nClicks > 0
    /\ \/ detection.confirmedSerial # Null /\ detection.serialImage # NoImage
       \/ detection.confirmedImei # Null /\ detection.imeiImage # NoImage

\* C27: at most one continuation of the detection loop is pending at any
\* time, a timer or an animation frame that will invoke runDetectionLoop; a
\* restart from the start/stop effect leaves no earlier timer alive.
C27_OneContinuationPending == Pending <= 1

\* The page started in either order: the worker may become ready before or
\* after the camera is granted. React commits every render, timers and
\* animation frames are delivered, the camera prompt is answered, the worker
\* loads and answers every call.
StartNext ==
    \/ WorkerReady /\ UNCHANGED <<cardVars, debugVars, call>>
    \/ StartCamera /\ UNCHANGED <<cardVars, debugVars, call>>
    \/ CameraGranted /\ UNCHANGED <<cardVars, debugVars, call>>
    \/ Commit /\ UNCHANGED <<cardVars, debugVars, call>>
    \/ LiveTimer /\ UNCHANGED <<cardVars, debugVars, call>>
    \/ (\E r \in BagToSet(rafs) : RunDetectionLoop(r, 250) /\ nCycles' <= MaxStartCycles)
          /\ UNCHANGED <<cardVars, debugVars, call>>
    \/ LiveOcr /\ UNCHANGED <<cardVars, debugVars, call>>

SpecStart ==
    /\ Init /\ [][StartNext]_vars
    /\ WF_vars(WorkerReady /\ UNCHANGED <<cardVars, debugVars, call>>)
    /\ WF_vars(CameraGranted /\ UNCHANGED <<cardVars, debugVars, call>>)
    /\ WF_vars(Commit /\ UNCHANGED <<cardVars, debugVars, call>>)
    /\ WF_vars(LiveTimer /\ UNCHANGED <<cardVars, debugVars, call>>)
    /\ WF_vars((\E r \in BagToSet(rafs) : RunDetectionLoop(r, 250) /\ nCycles' <= MaxStartCycles)
                  /\ UNCHANGED <<cardVars, debugVars, call>>)
    /\ WorkerAnswers

\* C28: once the camera is active and the worker is ready, whichever came
\* first, a detection cycle eventually runs.
C28_ScanningStartsInEitherOrder ==
    (isCameraActive /\ workerRef = "worker") ~> (nCycles > 0)

\* C29: a cycle that was awaiting OCR when resetResults cleared the state
\* does not append its candidates, raise frameCount or set a snapshot in the
\* cleared state. (A cycle past its coarse pass has set the phase to
\* 'detecting', so the state is the initial one there only after a reset.)
C29_ResetDropsCycleInFlight ==
    [][(/\ detection = InitialDetection
        /\ cycle.pc \in {"setParameters", "recognize", "restore"})
          => /\ detection'.serialCandidates = <<>>
             /\ detection'.imeiCandidates = <<>>
             /\ detection'.imei2Candidates = <<>>
             /\ detection'.frameCount = 0
             /\ detection'.serialImage = NoImage /\ detection'.imeiImage = NoImage
      ]_vars

\* C30: the screen type of a coarse pass depends on the recognised text only:
\* whatever cycles ran before, a text is classified as it is by the first call,
\* when both regexes have lastIndex 0.
C30_ClassificationStateless ==
    [][\A text \in ClassifyTexts :
          CycleDetect(text) =>
              detection'.currentScreen =
                  classifyScreen(text, [SERIAL_PATTERN |-> 0, IMEI_PATTERN |-> 0]).screenType
      ]_vars

\* The DetectionState updates of a run of cycles on frames that show the same
\* value more than once, with resets.
RepeatNext ==
    \/ \E text \in CoarseTexts :
          CycleDetect(text) /\ nCycles' <= MaxRepeatCycles /\ UNCHANGED <<cardVars, debugVars, call>>
    \/ \E text \in RepeatTexts : CycleExtract(text) /\ UNCHANGED <<cardVars, debugVars, call>>
    \/ resetResults /\ nClicks' <= MaxRepeatResets /\ UNCHANGED <<cardVars, debugVars, call>>

SpecRepeat == Init /\ [][RepeatNext]_vars

\* C31: a confirmed value was extracted in at least 3 distinct cycles since
\* the last reset. A reset empties the three histories and the count of fine
\* passes; one fine pass raises the number of occurrences of any string in any
\* history by at most one; a confirmed value occurs at least 3 times in its
\* history, so at least 3 fine passes have been recorded since the reset.
C31_ThreeDistinctCycles ==
    /\ [](\A field \in {<<detection.serialCandidates, detection.confirmedSerial>>,
                         <<detection.imeiCandidates, detection.confirmedImei>>,
                         <<detection.imei2Candidates, detection.confirmedImei2>>} :
             field[2] # Null => /\ Count(field[1], field[2]) >= 3
                                /\ detection.frameCount >= 3)
    /\ [][resetResults => /\ detection'.serialCandidates = <<>>
                          /\ detection'.imeiCandidates = <<>>
                          /\ detection'.imei2Candidates = <<>>
                          /\ detection'.frameCount = 0]_vars
    /\ [][\A h \in {<<detection.serialCandidates, detection'.serialCandidates>>,
                     <<detection.imeiCandidates, detection'.imeiCandidates>>,
                     <<detection.imei2Candidates, detection'.imei2Candidates>>} :
             LET old == h[1]
                 new == h[2]
             IN /\ \A i \in 1..Len(new) : Count(new, new[i]) <= Count(old, new[i]) + 1
                /\ (new # old /\ new # <<>>)
                       => detection'.frameCount = detection.frameCount + 1]_vars

\* C31's case: frames that show the serial twice were scanned, and the serial
\* is confirmed with exactly three occurrences after three fine passes.
C31_Witness ==
    /\ detection.confirmedSerial = SERIAL_A
    /\ detection.serialCandidates = <<SERIAL_A, SERIAL_A, SERIAL_A>>
    /\ detection.frameCount = 3

\* C32: at most one capture source is active at a time: the camera is never
\* active while a test image is selected.
C32_OneSourceActive == ~(isCameraActive /\ testImagePath # "")

\* C33: at most one OCR worker of OcrDebugPage is alive and workerRef refers
\* to it: every worker that was created and is not the one in the ref has been
\* terminated.
C33_OneWorkerAlive ==
    \A w \in 1..debugWorkers : w # debugWorkerRef => w \in debugTerminated

\* The source image never loads (an uploaded file that is not an image): the
\* promise of img.onload never settles, img.onerror is not set.
DebugImageFails ==
    /\ debugRun.pc = "imageLoad"
    /\ debugRun' = [pc |-> "hung", worker |-> 0]
    /\ UNCHANGED <<debugWorkerRef, debugWorkers, debugTerminated, debugInits, processing,
                   nEngineChanges, nDebugRuns>>

\* setParameters or recognize rejects on a live worker: runOcr ends there,
\* nothing catches the rejection.
DebugCallFails ==
    /\ debugRun.pc \in DebugCalls
    /\ debugRun.worker \notin debugTerminated
    /\ debugRun' = [pc |-> "threw", worker |-> 0]
    /\ UNCHANGED <<debugWorkerRef, debugWorkers, debugTerminated, debugInits, processing,
                   nEngineChanges, nDebugRuns>>

\* OcrDebugPage with runs that fail; every pending promise settles, an image
\* either loads or fails.
RunNext ==
    \/ ChangeEngine /\ nEngineChanges' <= MaxRunEngineChanges /\ UNCHANGED <<pageVars, cardVars, call>>
    \/ \E i \in DOMAIN debugInits : InitTerminated(i) /\ UNCHANGED <<pageVars, cardVars, call>>
    \/ \E i \in DOMAIN debugInits : InitCreated(i) /\ UNCHANGED <<pageVars, cardVars, call>>
    \/ runOcr /\ nDebugRuns' <= MaxRunRuns /\ UNCHANGED <<pageVars, cardVars, call>>
    \/ DebugImageLoaded /\ UNCHANGED <<pageVars, cardVars, call>>
    \/ DebugImageFails /\ UNCHANGED <<pageVars, cardVars, call>>
    \/ \E labelFound \in BOOLEAN :
          DebugCallResolves(labelFound) /\ UNCHANGED <<pageVars, cardVars, call>>
    \/ DebugCallFails /\ UNCHANGED <<pageVars, cardVars, call>>
    \/ DebugCallRejects /\ UNCHANGED <<pageVars, cardVars, call>>

SpecRun ==
    /\ Init /\ [][RunNext]_vars
    /\ WF_vars(\E i \in DOMAIN debugInits : InitTerminated(i) /\ UNCHANGED <<pageVars, cardVars, call>>)
    /\ WF_vars(\E i \in DOMAIN debugInits : InitCreated(i) /\ UNCHANGED <<pageVars, cardVars, call>>)
    /\ WF_vars((DebugImageLoaded \/ DebugImageFails) /\ UNCHANGED <<pageVars, cardVars, call>>)
    /\ WF_vars(\E labelFound \in BOOLEAN :
                  (DebugCallResolves(labelFound) \/ DebugCallFails)
                      /\ UNCHANGED <<pageVars, cardVars, call>>)
    /\ WF_vars(DebugCallRejects /\ UNCHANGED <<pageVars, cardVars, call>>)

\* C34: every run of runOcr that sets processing to true eventually sets it
\* back to false.
C34_ProcessingEnds == processing ~> ~processing

\* The pattern extractors on texts made of up to MaxTokens pieces: labels,
\* separators, serials, and IMEIs written with and without spaces.
ExtractTokens ==
    <<TEXT_IMEI_LABEL, <<" ">>, <<"\n">>, IMEI_B, normalizeImei(IMEI_A), IMEI_A,
      SERIAL_A, <<"X", "Y", "Z">>>>

\* A call of the function named fn on the text of the last call of fn, one
\* piece longer.
CallOnText(fn, tok, result) ==
    /\ call.fn \in {"none", fn}
    /\ call.steps < MaxTokens
    /\ call' = [fn |-> fn, arg |-> call.arg \o ExtractTokens[tok], result |-> result,
                steps |-> call.steps + 1]
    /\ UNCHANGED <<pageVars, cardVars, debugVars>>

ExtractNext ==
    \/ \E tok \in DOMAIN ExtractTokens :
          CallOnText("extractSerialNumbers", tok,
                     extractSerialNumbers(call.arg \o ExtractTokens[tok]))
    \/ \E tok \in DOMAIN ExtractTokens :
          CallOnText("extractImeis", tok, extractImeis(call.arg \o ExtractTokens[tok]))
    \/ \E tok \in DOMAIN ExtractTokens :
          CallOnText("normalizeImei", tok, normalizeImei(call.arg \o ExtractTokens[tok]))
    \/ \E tok \in DOMAIN ExtractTokens :
          CallOnText("formatImei", tok, formatImei(call.arg \o ExtractTokens[tok]))

SpecExtract == Init /\ [][ExtractNext]_vars

\* C35: extractSerialNumbers returns de-duplicated strings of 10 to 12
\* characters over A-Z and 0-9, and a run of exactly 15 digits in the text
\* contributes no candidate: neither the run nor a part of it is returned.
C35_SerialsExcludeImeis ==
    call.fn = "extractSerialNumbers" =>
        LET text == call.arg
            serials == call.result
            \* a maximal run of digits, exactly 15 long, starts at index k
            ImeiRunAt(k) == /\ RunLength(text, k, Digits, 16) = 15
                            /\ (k = 0 \/ text[k] \notin Digits)
            PartOf(s, k) == \E j \in k..(k + 15 - Len(s)) : SubSeq(text, j + 1, j + Len(s)) = s
        IN /\ \A i \in 1..Len(serials) :
                 /\ Len(serials[i]) \in 10..12
                 /\ \A j \in 1..Len(serials[i]) : serials[i][j] \in SerialChars
                 /\ \A j \in 1..Len(serials) : serials[j] = serials[i] => j = i
           /\ \A k \in 0..(Len(text) - 15) :
                 ImeiRunAt(k) => \A i \in 1..Len(serials) : ~PartOf(serials[i], k)

\* isValidImei on IMEIs and on what a replaced digit makes of them.
IMEI_ZEROS == <<"0", "0", "0", "0", "0", "0", "0", "0", "0", "0", "0", "0", "0", "0", "0">>
IMEI_FIVES_NINES == <<"5", "9", "5", "9", "5", "9", "5", "9", "5", "9", "5", "9", "5", "9", "2">>
ImeiSamples == <<IMEI_B, IMEI_A, IMEI_ZEROS, IMEI_FIVES_NINES,
                 SubSeq(IMEI_B, 1, 14), IMEI_B \o <<"8">>,
                 SubSeq(IMEI_B, 1, 14) \o <<"B">>>>

\* isValidImei(imei) for one of the samples
ValidateImei(b) ==
    /\ call.fn = "none"
    /\ call' = [fn |-> "isValidImei", arg |-> ImeiSamples[b],
                result |-> isValidImei(ImeiSamples[b]), steps |-> 0]
    /\ UNCHANGED <<pageVars, cardVars, debugVars>>

\* isValidImei on the last argument with its digit at index i replaced by d
FlipDigit(i, d) ==
    /\ call.fn = "isValidImei"
    /\ call.steps < MaxFlips
    /\ i < Len(call.arg)
    /\ call.arg[i + 1] \in Digits \ {d}
    /\ call' = [fn |-> "isValidImei", arg |-> [call.arg EXCEPT ![i + 1] = d],
                result |-> isValidImei([call.arg EXCEPT ![i + 1] = d]),
                steps |-> call.steps + 1]
    /\ UNCHANGED <<pageVars, cardVars, debugVars>>

LuhnNext ==
    \/ \E b \in DOMAIN ImeiSamples : ValidateImei(b)
    \/ \E i \in 0..17, d \in Digits : FlipDigit(i, d)

SpecLuhn == Init /\ [][LuhnNext]_vars

\* C36: 490154203237518 is accepted; a string that is not exactly 15 digits
\* after whitespace removal is rejected; and replacing any single digit of an
\* accepted string by a different digit gives a string that is rejected.
C36_SingleFlipRejected ==
    /\ [](call.fn = "isValidImei" =>
             /\ call.arg = IMEI_B => call.result
             /\ call.result => /\ Len(normalizeImei(call.arg)) = 15
                               /\ AllDigits(normalizeImei(call.arg)))
    /\ [][(call.fn = "isValidImei" /\ call.result /\ call'.arg # call.arg)
             => ~call'.result]_vars

\* C36's case: the last digit of 490154203237518 was replaced and the result
\* is rejected.
C36_Witness ==
    /\ call.fn = "isValidImei"
    /\ call.steps = 1
    /\ SubSeq(call.arg, 1, 14) = SubSeq(IMEI_B, 1, 14)
    /\ call.arg[15] = "9"
    /\ ~call.result

\* C37: normalizeImei is idempotent; every string extractImeis returns is
\* exactly 15 digits with no whitespace, and no string is returned twice;
\* formatImei regroups a 15-digit string as 2-6-6-1 and normalizeImei takes
\* the result back to the string.
C37_ImeiNormalForm ==
    /\ call.fn = "normalizeImei" =>
           /\ call.result = normalizeImei(call.arg)
           /\ normalizeImei(call.result) = call.result
           /\ \A i \in 1..Len(call.result) : call.result[i] \notin WhiteSpace
    /\ call.fn = "extractImeis" =>
           \A i \in 1..Len(call.result) :
              LET x == call.result[i]
                  f == formatImei(x)
              IN /\ Len(x) = 15 /\ AllDigits(x)
                 /\ \A j \in 1..Len(call.result) : call.result[j] = x => j = i
                 /\ Len(f) = 18
                 /\ {j \in 1..18 : f[j] = " "} = {3, 10, 17}
                 /\ normalizeImei(f) = x
    /\ call.fn = "formatImei" =>
           LET digits == normalizeImei(call.arg)
           IN /\ normalizeImei(call.result) = digits
              /\ (Len(digits) = 15 /\ AllDigits(digits)) =>
                    /\ Len(call.result) = 18
                    /\ {j \in 1..18 : call.result[j] = " "} = {3, 10, 17}
              /\ Len(digits) # 15 => call.result = digits

\* C37's case: a text with the same IMEI written with spaces and without:
\* extractImeis returns it once, normalized.
C37_Witness ==
    /\ call.fn = "extractImeis"
    /\ call.arg = IMEI_A \o <<"\n">> \o normalizeImei(IMEI_A)
    /\ call.result = <<normalizeImei(IMEI_A)>>

\* --------------------------------------------------------- the crop planner

\* runFullExtraction: const TARGET_HEIGHT = 800
TARGET_HEIGHT == 800
\* captureFrame(true): const targetWidth = 320
LOW_RES_WIDTH == 320
\* OcrDebugPage.runOcr: DETECT_MAX_WIDTH, TARGET_HEIGHT, MAX_WIDTH
DETECT_MAX_WIDTH == 1200
DEBUG_TARGET_HEIGHT == 600
MAX_WIDTH == 2000

\* Lengths are in pixels. The sample images and boxes keep every product of
\* the code integral (scale factors 1, 2 and 4, even label heights); ocrScale
\* is the fraction <<numerator, denominator>>.

\* Math.max(1, target / height) as a fraction
EnlargeOnly(target, height) == IF target > height THEN <<target, height>> ELSE <<1, 1>>

\* runFullExtraction, lines 376-395: the crop of the full-resolution canvas for
\* a label box given in low-resolution coordinates
FullExtractionCrop(canvas, labelBbox, lowResWidth) ==
    LET scaleUp == canvas.width \div lowResWidth
        labelHeight == (labelBbox.y1 - labelBbox.y0) * scaleUp
        padding == labelHeight \div 2
        cropX == Max({0, labelBbox.x0 * scaleUp})
        cropY == Max({0, labelBbox.y0 * scaleUp - padding})
        cropWidth == Min({canvas.width - cropX, (labelBbox.x1 - labelBbox.x0) * scaleUp * 5})
        cropHeight == Min({canvas.height - cropY, labelHeight * 3 + padding})
        ocrScale == EnlargeOnly(TARGET_HEIGHT, cropHeight)
    IN [cropX |-> cropX, cropY |-> cropY, cropW |-> cropWidth, cropH |-> cropHeight,
        ocrScale |-> ocrScale,
        finalW |-> Round(cropWidth * ocrScale[1], ocrScale[2]),
        finalH |-> Round(cropHeight * ocrScale[1], ocrScale[2])]

\* OcrDebugPage.runOcr, lines 203-236: the crop of the source image for a label
\* box given in the coordinates of the detection image
DebugCrop(img, labelBbox) ==
    LET \* 1 / Math.min(1, DETECT_MAX_WIDTH / img.naturalWidth)
        bboxScale == IF img.width <= DETECT_MAX_WIDTH THEN 1
                     ELSE img.width \div DETECT_MAX_WIDTH
        bbox == [x0 |-> labelBbox.x0 * bboxScale, y0 |-> labelBbox.y0 * bboxScale,
                 x1 |-> labelBbox.x1 * bboxScale, y1 |-> labelBbox.y1 * bboxScale]
        lineH == bbox.y1 - bbox.y0
        padding == lineH \div 2
        cropX == Max({0, bbox.x0 - padding})
        cropY == Max({0, bbox.y0 - padding})
        cropW == img.width - cropX
        cropH == lineH + padding * 2
        enlarged == EnlargeOnly(DEBUG_TARGET_HEIGHT, cropH)
        ocrScale == IF cropW * enlarged[1] > MAX_WIDTH * enlarged[2]
                    THEN <<MAX_WIDTH, cropW>> ELSE enlarged
    IN [cropX |-> cropX, cropY |-> cropY, cropW |-> cropW, cropH |-> cropH,
        ocrScale |-> ocrScale,
        finalW |-> Round(cropW * ocrScale[1], ocrScale[2]),
        finalH |-> Round(cropH * ocrScale[1], ocrScale[2])]

\* Full-resolution frames of IPhoneSerialPage and source images of OcrDebugPage.
Canvases == {[width |-> 1280, height |-> 960], [width |-> 320, height |-> 240]}
DebugImages == {[width |-> 600, height |-> 400], [width |-> 2400, height |-> 1600]}
\* The image the coarse pass reads: 320 wide, or at most 1200 wide.
LowResOf(canvas) ==
    [width |-> LOW_RES_WIDTH, height |-> (canvas.height * LOW_RES_WIDTH) \div canvas.width]
DetectImageOf(img) ==
    IF img.width <= DETECT_MAX_WIDTH THEN img
    ELSE [width |-> DETECT_MAX_WIDTH, height |-> (img.height * DETECT_MAX_WIDTH) \div img.width]
\* Line boxes the coarse pass may report on an image: they start inside it, on
\* the grid, and end inside it, on its edge, or one grid step beyond.
LabelBoxes(image) ==
    {[x0 |-> (q[1] * image.width) \div GridSteps, y0 |-> (q[2] * image.height) \div GridSteps,
      x1 |-> (q[3] * image.width) \div GridSteps, y1 |-> (q[4] * image.height) \div GridSteps] :
        q \in {q \in (0..(GridSteps - 1)) \X (0..(GridSteps - 1))
                       \X (1..(GridSteps + 1)) \X (1..(GridSteps + 1)) :
                  q[1] < q[3] /\ q[2] < q[4]}}

\* The fine pass of IPhoneSerialPage plans its crop.
PlanFullExtractionCrop(canvas, labelBbox) ==
    /\ call.fn = "none"
    /\ call' = [fn |-> "runFullExtraction",
                arg |-> [image |-> canvas, labelBbox |-> labelBbox],
                result |-> FullExtractionCrop(canvas, labelBbox, LowResOf(canvas).width),
                steps |-> 0]
    /\ UNCHANGED <<pageVars, cardVars, debugVars>>

\* Pass 2 of OcrDebugPage.runOcr plans its crop.
PlanDebugCrop(img, labelBbox) ==
    /\ call.fn = "none"
    /\ call' = [fn |-> "runOcr", arg |-> [image |-> img, labelBbox |-> labelBbox],
                result |-> DebugCrop(img, labelBbox), steps |-> 0]
    /\ UNCHANGED <<pageVars, cardVars, debugVars>>

CropNext ==
    \/ \E canvas \in Canvases : \E labelBbox \in LabelBoxes(LowResOf(canvas)) :
          PlanFullExtractionCrop(canvas, labelBbox)
    \/ \E img \in DebugImages : \E labelBbox \in LabelBoxes(DetectImageOf(img)) :
          PlanDebugCrop(img, labelBbox)

SpecCrop == Init /\ [][CropNext]_vars

\* C38: the crop rectangle of the fine pass lies fully inside the
\* full-resolution image, in IPhoneSerialPage and in OcrDebugPage, for every
\* label box, including boxes that touch or exceed the right or bottom edge.
C38_CropInsideImage ==
    call.fn \in {"runFullExtraction", "runOcr"} =>
        LET crop == call.result
            image == call.arg.image
        IN /\ 0 <= crop.cropX /\ 0 <= crop.cropY
           /\ crop.cropW >= 0 /\ crop.cropH >= 0
           /\ crop.cropX + crop.cropW <= image.width
           /\ crop.cropY + crop.cropH <= image.height

\* C39: the rescale factor applied to the crop is never below 1 and the output
\* width never exceeds 2000 px.
C39_ScaleAtLeastOneWidthCapped ==
    call.fn \in {"runFullExtraction", "runOcr"} =>
        /\ call.result.ocrScale[1] >= call.result.ocrScale[2]
        /\ call.result.finalW <= MAX_WIDTH

\* ----------------------------------------------------- the card's ID number

\* cleanFieldValue(field, text) of CameraOcrPage, its 'idNumber' case: the
\* text trimmed and its whitespace collapsed, null when nothing is left; then
\* the digits of the text, cut to 13 when there are 13 or more, whole when
\* there are 10 to 12.
cleanFieldValue(field, text) ==
    LET digits == SelectSeq(text, LAMBDA c : c \in Digits)
    IN CASE field = "idNumber" ->
           IF \A i \in 1..Len(text) : text[i] \in WhiteSpace THEN Null
           ELSE IF Len(digits) >= 13 THEN SubSeq(digits, 1, 13)
           ELSE IF Len(digits) >= 10 THEN digits
           ELSE Null

\* Pieces of what the OCR engine reads in the ID-number region of a card.
IdTokens ==
    <<<<"1", "2", "3", "4", "5", "6", "7", "8", "9", "0", "1", "2", "3">>, <<"0", "8", "1", "2", "3", "4", "5", "6", "7", "8">>, <<"6", "7", "8", "9", "0">>, <<"1">>, <<"2", "3", "4", "5">>, <<" ">>, <<"-">>, <<"I", "D">>>>

\* cleanFieldValue('idNumber', text) on the text of the last call, one piece longer
CleanIdNumber(tok) ==
    /\ call.fn \in {"none", "cleanFieldValue"}
    /\ call.steps < MaxTokens
    /\ call' = [fn |-> "cleanFieldValue", arg |-> call.arg \o IdTokens[tok],
                result |-> cleanFieldValue("idNumber", call.arg \o IdTokens[tok]),
                steps |-> call.steps + 1]
    /\ UNCHANGED <<pageVars, cardVars, debugVars>>

CleanNext == \E tok \in DOMAIN IdTokens : CleanIdNumber(tok)

SpecClean == Init /\ [][CleanNext]_vars

\* C40: cleanFieldValue('idNumber', text) returns nothing or a string of
\* exactly 13 digits that is the first 13-digit run of the text; a text
\* without 13 digits yields no value.
C40_IdNumberIsThirteenDigitRun ==
    call.fn = "cleanFieldValue" =>
        LET text == call.arg
            value == call.result
            runs == {k \in 0..(Len(text) - 13) : DigitsAt(text, k, 13) >= 0}
        IN /\ value # Null =>
                 /\ Len(value) = 13 /\ AllDigits(value)
                 /\ runs # {}
                 /\ value = SubSeq(text, Min(runs) + 1, Min(runs) + 13)
           /\ Len(SelectSeq(text, LAMBDA c : c \in Digits)) < 13 => value = Null
====
